---------------------------- MODULE Spec2Model ----------------------------
(***************************************************************************)
(* A model of the embedinator binary emitters: the byte-stream writers,    *)
(* the payload serializers, the .res emitter, the two-section COFF emitter *)
(* (coff2), the legacy single-section COFF writer and the resource         *)
(* builder that drives them.  Buffers are sequences of bytes (0..255);     *)
(* offsets are 0-based as in the source, so byte k of a buffer d is        *)
(* d[k + 1].  A panic of the program is the flag `panic` of a writer: once *)
(* set, the writer is left as it is.                                       *)
(***************************************************************************)
EXTENDS Integers, Sequences, FiniteSets, TLC

(***************************************************************************)
(* Bounds of the model.                                                    *)
(***************************************************************************)
MaxRecords == 2
MaxAdds == 2
MaxOps == 3
MaxIcons == 2
MaxLegacyEntries == 2

(***************************************************************************)
(* Integer widths and little-endian encodings (to_le_bytes).               *)
(***************************************************************************)
U8_LIMIT == 256
U16_LIMIT == 65536
\* TLC's integers are 32-bit signed: every size, offset and id of the model is
\* below 2^31, where the conversions `as u32` and u32::try_from are the
\* identity and never fail.  A u32 with bit 31 set exists only as its bytes.
U24_LIMIT == 16777216

Zeros(n) == [j \in 1..n |-> 0]

u8_to_le_bytes(v) == << v % U8_LIMIT >>

u16_to_le_bytes(v) == << v % U8_LIMIT, (v \div U8_LIMIT) % U8_LIMIT >>

u32_to_le_bytes(v) ==
    << v % U8_LIMIT,
       (v \div U8_LIMIT) % U8_LIMIT,
       (v \div U16_LIMIT) % U8_LIMIT,
       (v \div U24_LIMIT) % U8_LIMIT >>

\* Mutant of the subdirectory flag: the high bit is never set.
u32_with_bit31_to_le_bytes_NoBit(v, bit) == u32_to_le_bytes(v)

\* (v | (bit as u32) << 31).to_le_bytes(), for v < 2^31.
u32_with_bit31_to_le_bytes(v, bit) ==
    [u32_to_le_bytes(v) EXCEPT ![4] = IF bit THEN (@ % 128) + 128 ELSE @]

\* The reader's view of a buffer (examples/reader.rs): a read past the end of
\* the buffer is reported as -1.
InBuf(d, off, n) == off >= 0 /\ off + n <= Len(d)

read_u16(d, off) ==
    IF InBuf(d, off, 2) THEN d[off + 1] + U8_LIMIT * d[off + 2] ELSE -1

\* A u32 is read as its low 31 bits; bit31 reads the top bit.
read_u32(d, off) ==
    IF InBuf(d, off, 4)
    THEN d[off + 1] + U8_LIMIT * d[off + 2] + U16_LIMIT * d[off + 3]
         + U24_LIMIT * (d[off + 4] % 128)
    ELSE -1

bit31(d, off) == InBuf(d, off, 4) /\ d[off + 4] >= 128

\* dst[index .. index + len(src)) := src, for a region inside dst.
copy_from_slice(dst, index, src) ==
    SubSeq(dst, 1, index) \o src \o SubSeq(dst, index + Len(src) + 1, Len(dst))

(***************************************************************************)
(* The writers.  One record shape serves the three implementations of the  *)
(* BinaryWriter trait; `kind` selects the implementation.                  *)
(***************************************************************************)
NewVecWriter(kind, initial) ==
    [kind |-> kind, data |-> initial, current_position |-> 0,
     section_start |-> 0, panic |-> FALSE]

\* ResWriter::default(): an empty Vec<u8>.
ResourceFile_new == NewVecWriter("ResourceFile", << >>)

\* FileWriter::default().
FileWriter_default ==
    [kind |-> "FileWriter", data |-> << >>, current_position |-> 0,
     section_start |-> 0, panic |-> FALSE]

Panic(w) == [w EXCEPT !.panic = TRUE]

\* ---- impl BinaryWriter for ResourceFile (res.rs) ----
ResourceFile_pos(w) == Len(w.data)

ResourceFile_reserve(w, amount) == [w EXCEPT !.data = @ \o Zeros(amount)]

ResourceFile_write_bytes(w, bytes) == [w EXCEPT !.data = @ \o bytes]

ResourceFile_write_bytes_at(w, index, bytes) ==
    IF index + Len(bytes) > Len(w.data)
    THEN Panic(w)                       \* slice index out of range
    ELSE [w EXCEPT !.data = copy_from_slice(@, index, bytes)]

\* ---- impl BinaryWriter for CoffWriter (coff.rs, the legacy writer) ----
CoffWriter_pos(w) == Len(w.data)

CoffWriter_reserve(w, amount) == [w EXCEPT !.data = @ \o Zeros(amount)]

CoffWriter_write_bytes(w, bytes) == [w EXCEPT !.data = @ \o bytes]

\* Mutant of the range check: the buffer grows instead.
CoffWriter_write_bytes_at_Growing(w, index, bytes) ==
    [w EXCEPT !.data = copy_from_slice(
                         IF index + Len(bytes) > Len(w.data)
                         THEN w.data \o Zeros(index + Len(bytes) - Len(w.data))
                         ELSE w.data,
                         index, bytes)]

CoffWriter_write_bytes_at(w, index, bytes) ==
    IF index + Len(bytes) > Len(w.data)
    THEN Panic(w)                       \* slice index out of range
    ELSE [w EXCEPT !.data = copy_from_slice(@, index, bytes)]

\* ---- FileWriter (coff2/writer.rs) ----
FileWriter_set_pos(w, pos) ==
    IF w.panic THEN w ELSE [w EXCEPT !.current_position = pos]

FileWriter_mark_section_start(w) ==
    IF w.panic THEN w ELSE [w EXCEPT !.section_start = w.current_position]

\* Mutant of current_offset: the absolute position, the section start forgotten.
FileWriter_current_offset_Absolute(w) == w.current_position

FileWriter_current_offset(w) == w.current_position - w.section_start

FileWriter_pos(w) == w.current_position

\* Mutant of reserve: the zero bytes are appended to the buffer at once.
FileWriter_reserve_Appending(w, amount) ==
    [w EXCEPT !.current_position = @ + amount, !.data = @ \o Zeros(amount)]

FileWriter_reserve(w, amount) == [w EXCEPT !.current_position = @ + amount]

FileWriter_write_bytes_at(w, index, bytes) ==
    LET end == index + Len(bytes)
        grown == IF end > Len(w.data)
                 THEN w.data \o Zeros(end - Len(w.data))     \* resize(.., 0)
                 ELSE w.data
    IN  [w EXCEPT !.data = copy_from_slice(grown, index, bytes)]

FileWriter_write_bytes(w, bytes) ==
    [FileWriter_write_bytes_at(w, w.current_position, bytes)
        EXCEPT !.current_position = @ + Len(bytes)]

\* ---- trait dispatch ----
pos(w) ==
    CASE w.kind = "ResourceFile" -> ResourceFile_pos(w)
      [] w.kind = "CoffWriter"   -> CoffWriter_pos(w)
      [] w.kind = "FileWriter"   -> FileWriter_pos(w)

reserve(w, amount) ==
    IF w.panic THEN w ELSE
    CASE w.kind = "ResourceFile" -> ResourceFile_reserve(w, amount)
      [] w.kind = "CoffWriter"   -> CoffWriter_reserve(w, amount)
      [] w.kind = "FileWriter"   -> FileWriter_reserve(w, amount)

write_bytes(w, bytes) ==
    IF w.panic THEN w ELSE
    CASE w.kind = "ResourceFile" -> ResourceFile_write_bytes(w, bytes)
      [] w.kind = "CoffWriter"   -> CoffWriter_write_bytes(w, bytes)
      [] w.kind = "FileWriter"   -> FileWriter_write_bytes(w, bytes)

write_bytes_at(w, index, bytes) ==
    IF w.panic THEN w ELSE
    CASE w.kind = "ResourceFile" -> ResourceFile_write_bytes_at(w, index, bytes)
      [] w.kind = "CoffWriter"   -> CoffWriter_write_bytes_at(w, index, bytes)
      [] w.kind = "FileWriter"   -> FileWriter_write_bytes_at(w, index, bytes)

\* ---- provided methods of the trait (binary.rs) ----
write_u32(w, v) == write_bytes(w, u32_to_le_bytes(v))

write_u16(w, v) == write_bytes(w, u16_to_le_bytes(v))

write_u8(w, v) == write_bytes(w, u8_to_le_bytes(v))

align_to(w, i) ==
    LET required_padding == (i - (pos(w) % i)) % i
    IN  reserve(w, required_padding)

\* The trait of coff.rs, used by the legacy CoffWriter: no outer `% i`.
Legacy_align_to(w, i) ==
    LET required_padding == i - (pos(w) % i)
    IN  reserve(w, required_padding)


(***************************************************************************)
(* Resource types (lib.rs) and their .res memory flags.                    *)
(***************************************************************************)
ResourceTypes == {"None", "Version", "Icon", "IconGroup", "Manifest"}

\* `ty as u16` / From<ResourceType> for u32: the enum's discriminant.
ResourceType_id(ty) ==
    CASE ty = "None"      -> 0
      [] ty = "Version"   -> 16
      [] ty = "Icon"      -> 3
      [] ty = "IconGroup" -> 14
      [] ty = "Manifest"  -> 24

ResourceType_flags(ty) ==
    LET MOVEABLE == 16
        PURE == 32
        DISCARDABLE == 4096
    IN  CASE ty = "None"      -> 0
          [] ty = "Version"   -> MOVEABLE + PURE
          [] ty = "Icon"      -> DISCARDABLE + MOVEABLE
          [] ty = "IconGroup" -> DISCARDABLE + MOVEABLE + PURE
          [] ty = "Manifest"  -> MOVEABLE + PURE

(***************************************************************************)
(* Payloads (the BinaryWritable implementations of binary.rs).  A payload  *)
(* is a record of one shape; `kind` says which implementation writes it.   *)
(***************************************************************************)
NoFixed == [file_version |-> <<0, 0, 0, 0>>, product_version |-> <<0, 0, 0, 0>>,
            file_flags |-> 0]

UnitPayload == [kind |-> "unit", bytes |-> << >>, entries |-> << >>, fixed |-> NoFixed]

BytesPayload(b) == [kind |-> "bytes", bytes |-> b, entries |-> << >>, fixed |-> NoFixed]

IconGroupPayload(es) ==
    [kind |-> "icongroup", bytes |-> << >>, entries |-> es, fixed |-> NoFixed]

VersionPayload(fx) ==
    [kind |-> "version", bytes |-> << >>, entries |-> << >>, fixed |-> fx]

\* ---- the version writer (binary.rs, mod version) ----
FieldType_id(t) == IF t = "Binary" THEN 0 ELSE 1

FieldValue_none == [tag |-> "None", bytes |-> << >>, i |-> 0]

\* FieldValue::header(f): `bytes` is what the closure f writes.
FieldValue_header(b) == [tag |-> "Header", bytes |-> b, i |-> 0]

FieldValue_other(v) == [tag |-> "Other", bytes |-> << >>, i |-> v]

\* The body closure of a field: nothing, a list of child fields, or one
\* write_utf16 of a text.
Body_empty == [tag |-> "empty", fields |-> << >>, text |-> << >>]

Body_fields(fs) == [tag |-> "fields", fields |-> fs, text |-> << >>]

Body_utf16(t) == [tag |-> "utf16", fields |-> << >>, text |-> t]

Field(field_type, key, value, body) ==
    [field_type |-> field_type, key |-> key, value |-> value, body |-> body]

RECURSIVE Utf16Bytes(_)
\* text.encode_utf16() as little-endian bytes (the texts are sequences of
\* UTF-16 code units).
Utf16Bytes(text) ==
    IF text = << >> THEN << >>
    ELSE u16_to_le_bytes(Head(text)) \o Utf16Bytes(Tail(text))

VersionWriter_write_utf16(w, text) ==
    write_u16(write_bytes(w, Utf16Bytes(text)), 0)

\* Mutant of update_u16: the reserved slot is never patched.
VersionWriter_update_u16_NoPatch(w, location, v) == w

\* update_u16 of a value converted with try_into().expect(..).
VersionWriter_update_u16(w, location, v) ==
    IF v >= U16_LIMIT THEN Panic(w)
    ELSE write_bytes_at(w, location, u16_to_le_bytes(v))

RECURSIVE VersionWriter_write_field(_, _)
RECURSIVE VersionWriter_write_body(_, _)
VersionWriter_write_field(w, f) ==
    LET w1 == align_to(w, 4)
        field_start == pos(w1)
        field_length_pos == pos(w1)
        w2 == write_u16(w1, 0)
        header_length_pos == pos(w2)
        w3 == write_u16(w2, 0)
        w4 == write_u16(w3, FieldType_id(f.field_type))
        w5 == VersionWriter_write_utf16(w4, f.key)
        w6 == align_to(w5, 4)
    IN  IF w6.panic THEN w6 ELSE
        LET w7 == CASE f.value.tag = "None" -> w6
                    [] f.value.tag = "Header" ->
                         LET header_start == pos(w6)
                             wa == write_bytes(w6, f.value.bytes)
                             header_length == pos(wa) - header_start
                         IN  align_to(VersionWriter_update_u16(
                                          wa, header_length_pos, header_length), 4)
                    [] f.value.tag = "Other" ->
                         write_bytes_at(w6, header_length_pos,
                                        u16_to_le_bytes(f.value.i))
        IN  IF w7.panic THEN w7 ELSE
            LET w8 == VersionWriter_write_body(w7, f.body)
                field_length == pos(w8) - field_start
            IN  IF w8.panic THEN w8 ELSE
                VersionWriter_update_u16(w8, field_length_pos, field_length)

VersionWriter_write_body(w, body) ==
    CASE body.tag = "empty" -> w
      [] body.tag = "utf16" -> VersionWriter_write_utf16(w, body.text)
      [] body.tag = "fields" ->
           IF body.fields = << >> THEN w
           ELSE LET w1 == VersionWriter_write_field(w, Head(body.fields))
                IN  IF w1.panic THEN w1          \* the panic unwinds
                    ELSE VersionWriter_write_body(
                             w1, Body_fields(Tail(body.fields)))

\* Keys and texts of the version tree, as UTF-16 code units.
Key_VS_VERSION_INFO == <<86, 83, 95, 86, 69, 82, 83, 73, 79, 78, 95, 73, 78, 70, 79>>
Key_StringFileInfo == <<83, 116, 114, 105, 110, 103, 70, 105, 108, 101, 73, 110, 102, 111>>
Key_000004b0 == <<48, 48, 48, 48, 48, 52, 98, 48>>
Key_ProductVersion == <<80, 114, 111, 100, 117, 99, 116, 86, 101, 114, 115, 105, 111, 110>>
Key_FileVersion == <<70, 105, 108, 101, 86, 101, 114, 115, 105, 111, 110>>
Key_ProductName == <<80, 114, 111, 100, 117, 99, 116, 78, 97, 109, 101>>
Key_FileDescription == <<70, 105, 108, 101, 68, 101, 115, 99, 114, 105, 112, 116, 105, 111, 110>>
Key_VarFileInfo == <<86, 97, 114, 70, 105, 108, 101, 73, 110, 102, 111>>
Key_Translation == <<84, 114, 97, 110, 115, 108, 97, 116, 105, 111, 110>>
Text_0_1_0 == <<48, 46, 49, 46, 48>>
Text_rusty_twinkle_tray == <<114, 117, 115, 116, 121, 45, 116, 119, 105, 110, 107, 108, 101, 45, 116, 114, 97, 121>>

\* Mutant of the VS_FIXEDFILEINFO closure: the version words in field order.
FixedFileInfoBytes_Unswapped(fx) ==
    <<189, 4, 239, 254>> \o u32_to_le_bytes(65536)
    \o u16_to_le_bytes(fx.file_version[1]) \o u16_to_le_bytes(fx.file_version[2])
    \o u16_to_le_bytes(fx.file_version[3]) \o u16_to_le_bytes(fx.file_version[4])
    \o u16_to_le_bytes(fx.product_version[1]) \o u16_to_le_bytes(fx.product_version[2])
    \o u16_to_le_bytes(fx.product_version[3]) \o u16_to_le_bytes(fx.product_version[4])
    \o u32_to_le_bytes(63) \o u32_to_le_bytes(fx.file_flags)
    \o u32_to_le_bytes(262148) \o u32_to_le_bytes(1) \o Zeros(12)

\* The bytes the VS_FIXEDFILEINFO closure writes.
FixedFileInfoBytes(fx) ==
    <<189, 4, 239, 254>>                              \* 0xFEEF04BD magic number
    \o u32_to_le_bytes(65536)                         \* 1 << 16 struct version
    \o u16_to_le_bytes(fx.file_version[2])            \* file_version[1]
    \o u16_to_le_bytes(fx.file_version[1])            \* file_version[0]
    \o u16_to_le_bytes(fx.file_version[4])            \* file_version[3]
    \o u16_to_le_bytes(fx.file_version[3])            \* file_version[2]
    \o u16_to_le_bytes(fx.product_version[2])
    \o u16_to_le_bytes(fx.product_version[1])
    \o u16_to_le_bytes(fx.product_version[4])
    \o u16_to_le_bytes(fx.product_version[3])
    \o u32_to_le_bytes(63)                            \* 0x3f fileflagsmask
    \o u32_to_le_bytes(fx.file_flags)
    \o u32_to_le_bytes(262148)                        \* 0x00040004 VOS_NT_WINDOWS32
    \o u32_to_le_bytes(1)                             \* VFT_APP
    \o u32_to_le_bytes(0)
    \o u32_to_le_bytes(0)                             \* Timestamp
    \o u32_to_le_bytes(0)

\* The `fields` array of the StringTable closure.
StringTableFields ==
    << <<Key_ProductVersion, Text_0_1_0>>,
       <<Key_FileVersion, Text_0_1_0>>,
       <<Key_ProductName, Text_rusty_twinkle_tray>>,
       <<Key_FileDescription, Text_rusty_twinkle_tray>> >>

StringField(kv) ==
    Field("Text", kv[1], FieldValue_other(Len(kv[2]) + 1), Body_utf16(kv[2]))

VersionTree(fx) ==
    Field("Binary", Key_VS_VERSION_INFO, FieldValue_header(FixedFileInfoBytes(fx)),
      Body_fields(<<
        Field("Text", Key_StringFileInfo, FieldValue_none,
          Body_fields(<<
            Field("Text", Key_000004b0, FieldValue_none,
              Body_fields([k \in 1..Len(StringTableFields) |->
                              StringField(StringTableFields[k])])) >>)),
        Field("Text", Key_VarFileInfo, FieldValue_none,
          Body_fields(<<
            Field("Binary", Key_Translation,
                  FieldValue_header(u32_to_le_bytes(78643200)),   \* 0x04b00000
                  Body_empty) >>)) >>))

\* Mutant of write_to: two bytes precede the root field.
FixedVersionInfo_write_to_Prefixed(fx, w) ==
    align_to(VersionWriter_write_field(write_u16(w, 0), VersionTree(fx)), 4)

FixedVersionInfo_write_to(fx, w) ==
    align_to(VersionWriter_write_field(w, VersionTree(fx)), 4)

\* ---- icon groups: impl BinaryWritable for [IconGroupEntry] ----
RECURSIVE IconGroupEntries_write(_, _)
IconGroupEntries_write(w, es) ==
    IF es = << >> THEN w
    ELSE LET e == Head(es)
             w1 == write_u8(w, 0)            \* bWidth
             w2 == write_u8(w1, 0)           \* bHeight
             w3 == write_u8(w2, 0)           \* bColorCount
             w4 == write_u8(w3, 0)           \* bReserved
             w5 == write_u16(w4, 1)          \* wPlanes
             w6 == write_u16(w5, 32)         \* wBitCount
             w7 == write_u32(w6, e.icon_size)          \* dwBytesInRes
             w8 == write_u16(w7, e.icon_id)
         IN  IconGroupEntries_write(w8, Tail(es))

IconGroup_write_to(es, w) ==
    LET w1 == write_u16(w, 0)                \* idReserved
        w2 == write_u16(w1, 1)               \* idType
        w3 == IF Len(es) >= U16_LIMIT THEN Panic(w2)
              ELSE write_u16(w2, Len(es))    \* idCount
    IN  IconGroupEntries_write(w3, es)

\* BinaryWritable::write_to, by the payload's implementation.
write_to(p, w) ==
    CASE p.kind = "unit"      -> w
      [] p.kind = "bytes"     -> write_bytes(w, p.bytes)
      [] p.kind = "icongroup" -> IconGroup_write_to(p.entries, w)
      [] p.kind = "version"   -> FixedVersionInfo_write_to(p.fixed, w)

(***************************************************************************)
(* The .res emitter (res.rs).                                              *)
(***************************************************************************)
\* Mutant of realign: no padding is written.
ResourceFile_realign_NoPadding(w) == w

ResourceFile_realign(w) == align_to(w, 4)

\* Mutant of update_u32: the reserved slot is never patched.
ResourceFile_update_u32_NoPatch(w, location, v) == w

ResourceFile_update_u32(w, location, v) ==
    write_bytes_at(w, location, u32_to_le_bytes(v))

ResourceFile_write_ident(w, id) == write_u16(write_u16(w, 65535), id)

\* Mutant of the language tag: en-US for the None sentinel too.
ResourceFile_language_Always(ty) == 1033

\* The language word of the header: the `match ty` of write_resource.
ResourceFile_language(ty) == IF ty = "None" THEN 0 ELSE 1033     \* 0x0409 en-US

ResourceFile_write_resource(w, ty, name, data) ==
    LET header_start == pos(w)
        data_size_loc == pos(w)
        w1 == write_u32(w, 0)                          \* reserve_u32
        header_size_loc == pos(w1)
        w2 == write_u32(w1, 0)                         \* reserve_u32
        w3 == ResourceFile_write_ident(w2, ResourceType_id(ty))
        w4 == ResourceFile_write_ident(w3, name)
        w5 == ResourceFile_realign(w4)
        w6 == write_u32(w5, 0)                         \* format version
        w7 == write_u16(w6, ResourceType_flags(ty))
        w8 == write_u16(w7, ResourceFile_language(ty))
        w9 == write_u32(w8, 0)                         \* data version
        w10 == write_u32(w9, 0)                        \* characteristics
        header_len == pos(w10) - header_start
        w11 == ResourceFile_update_u32(w10, header_size_loc, header_len)
        data_start == pos(w11)
    IN  IF w11.panic THEN w11 ELSE
        LET w12 == write_to(data, w11)
            data_len == pos(w12) - data_start
        IN  IF w12.panic THEN w12 ELSE
            ResourceFile_realign(
                ResourceFile_update_u32(w12, data_size_loc, data_len))

(***************************************************************************)
(* The two-section COFF emitter (coff2/mod.rs).                            *)
(***************************************************************************)
TargetTypes == {"Aarch64", "I386", "X86_64"}

\* Mutant of the machine id: every target is written as X86_64.
TargetType_id_AlwaysX86_64(t) == 34404

TargetType_id(t) ==
    CASE t = "Aarch64" -> 43620         \* 0xaa64
      [] t = "I386"    -> 332           \* 0x014c
      [] t = "X86_64"  -> 34404         \* 0x8664

\* Mutant of the relocation type: the target is ignored.
RelocationType_id_AlwaysI386(t) == 7

\* RelocationType::Rva32.id(target)
RelocationType_id(t) ==
    CASE t = "Aarch64" -> 2             \* IMAGE_REL_ARM64_ADDR32NB
      [] t = "I386"    -> 7             \* IMAGE_REL_I386_DIR32NB
      [] t = "X86_64"  -> 3             \* IMAGE_REL_AMD64_ADDR32NB

FILE_HEADER_SIZE == 20
SECTION_HEADER_SIZE == 40
RESOURCE_TABLE_ENTRY_SIZE == 8
IMAGE_SYM_CLASS_STATIC == 3
IMAGE_FILE_32BIT_MACHINE == 256
LANG_US == 1033
TABLE_SYMBOL == 0
DATA_SYMBOL == 2

\* IMAGE_SCN_CNT_INITIALIZED_DATA | IMAGE_SCN_MEM_READ | IMAGE_SCN_MEM_WRITE
\* = 0xC0000040, as its little-endian bytes.
SectionCharacteristicsBytes == <<64, 0, 0, 192>>

Name_rsrc01 == <<46, 114, 115, 114, 99, 36, 48, 49>>       \* b".rsrc$01"
Name_rsrc02 == <<46, 114, 115, 114, 99, 36, 48, 50>>       \* b".rsrc$02"

\* Symbols, in one record shape.
Symbol_Placeholder ==
    [tag |-> "Placeholder", name |-> << >>, section_number |-> 0, length |-> 0,
     number_of_relocations |-> 0, offset |-> 0]

Symbol_Section(name, section_number) ==
    [tag |-> "Section", name |-> name, section_number |-> section_number,
     length |-> 0, number_of_relocations |-> 0, offset |-> 0]

Symbol_SectionAux(length, number_of_relocations) ==
    [tag |-> "SectionAux", name |-> << >>, section_number |-> 0, length |-> length,
     number_of_relocations |-> number_of_relocations, offset |-> 0]

Symbol_Resource(name, offset, section_number) ==
    [tag |-> "Resource", name |-> name, section_number |-> section_number,
     length |-> 0, number_of_relocations |-> 0, offset |-> offset]

CoffWriter2_new(target_type) ==
    [target_type |-> target_type,
     table |-> << >>,
     data |-> FileWriter_default,
     symbols |-> [k \in 1..4 |-> Symbol_Placeholder],
     panic |-> FALSE]

\* ---- "$R{:06X}" written into an 8-byte array ----
HexDigit(d) == IF d < 10 THEN 48 + d ELSE 55 + d

RECURSIVE UpperHex(_)
UpperHex(v) == IF v < 16 THEN <<HexDigit(v)>> ELSE UpperHex(v \div 16) \o <<HexDigit(v % 16)>>

\* {:06X}: at least six digits, zero padded.
UpperHex06(v) ==
    LET h == UpperHex(v)
    IN  IF Len(h) >= 6 THEN h ELSE [k \in 1..(6 - Len(h)) |-> 48] \o h

\* The formatted text; write! fails when it does not fit the 8 bytes.
SymbolNameText(offset) == <<36, 82>> \o UpperHex06(offset)

SymbolName(offset) ==
    LET t == SymbolNameText(offset) IN t \o Zeros(8 - Len(t))

\* ---- BTreeMap: a function on the keys; iteration is in the keys' order ----
\* K: Into<u32>.  Level 1 is keyed by ResourceType, whose derived order is
\* the order of its discriminants; levels 2 and 3 by ResourceId and
\* LanguageId, ordered as their u32.
KeyU32(level, k) == IF level = 1 THEN ResourceType_id(k) ELSE k

\* Mutant of the iteration order: the keys from the greatest down.
RECURSIVE SortedKeys_Descending(_, _)
SortedKeys_Descending(level, S) ==
    IF S = {} THEN << >>
    ELSE LET m == CHOOSE x \in S : \A y \in S : KeyU32(level, x) >= KeyU32(level, y)
         IN  <<m>> \o SortedKeys_Descending(level, S \ {m})

RECURSIVE SortedKeys(_, _)
SortedKeys(level, S) ==
    IF S = {} THEN << >>
    ELSE LET m == CHOOSE x \in S : \A y \in S : KeyU32(level, x) <= KeyU32(level, y)
         IN  <<m>> \o SortedKeys(level, S \ {m})

BTreeMap_get_or_default(m, k) == IF k \in DOMAIN m THEN m[k] ELSE << >>

BTreeMap_insert(m, k, v) ==
    [x \in (DOMAIN m) \cup {k} |-> IF x = k THEN v ELSE m[x]]

ResourceLocation(offset, size, symbol_id) ==
    [offset |-> offset, size |-> size, symbol_id |-> symbol_id]

\* add_resource after the payload is written: d1 is self.data then.
\* Mutant: the symbol records the position after the payload.
AddResource_AfterPayload_EndOffset(cw, ty, id, offset, d1) ==
    IF d1.panic \/ Len(SymbolNameText(offset)) > 8
    THEN [cw EXCEPT !.data = d1, !.panic = TRUE]
    ELSE [cw EXCEPT
            !.data = align_to(d1, 8),
            !.symbols = Append(@, Symbol_Resource(SymbolName(offset), pos(d1), 2)),
            !.table =
               BTreeMap_insert(@, ty,
                 BTreeMap_insert(BTreeMap_get_or_default(cw.table, ty), id,
                   BTreeMap_insert(
                     BTreeMap_get_or_default(BTreeMap_get_or_default(cw.table, ty), id),
                     LANG_US,
                     ResourceLocation(offset, pos(d1) - offset, Len(cw.symbols)))))]

AddResource_AfterPayload(cw, ty, id, offset, d1) ==
    IF d1.panic \/ Len(SymbolNameText(offset)) > 8
    THEN [cw EXCEPT !.data = d1, !.panic = TRUE]
    ELSE [cw EXCEPT
            !.data = align_to(d1, 8),
            !.symbols = Append(@, Symbol_Resource(SymbolName(offset), offset, 2)),
            !.table =
               BTreeMap_insert(@, ty,
                 BTreeMap_insert(BTreeMap_get_or_default(cw.table, ty), id,
                   BTreeMap_insert(
                     BTreeMap_get_or_default(BTreeMap_get_or_default(cw.table, ty), id),
                     LANG_US,
                     ResourceLocation(offset, pos(d1) - offset, Len(cw.symbols)))))]

CoffWriter2_add_resource(cw, ty, id, data) ==
    AddResource_AfterPayload(cw, ty, id, pos(cw.data), write_to(data, cw.data))

\* ---- FileWriter::write_table and the three closures of write_table_section.
\* The context is the file being written and the relocations collected.
Ctx(file, relocations) == [file |-> file, relocations |-> relocations]

\* The innermost closure: one 16-byte data entry.
WriteDataEntry(ctx, entry) ==
    LET w1 == write_u32(ctx.file, 0)                    \* Data RVA
        w2 == write_u32(w1, entry.size)                 \* Size
        w3 == write_u32(w2, 0)                          \* Code page
        w4 == write_u32(w3, entry.size)                 \* Reserved
    IN  Ctx(w4, Append(ctx.relocations,
                       <<FileWriter_current_offset(ctx.file), entry.symbol_id>>))

RECURSIVE FileWriter_write_table(_, _, _)
RECURSIVE WriteTableLoop(_, _, _, _, _, _, _)
RECURSIVE WriteTableLoop_AfterEntry(_, _, _, _, _, _, _)
RECURSIVE WriteEntry(_, _, _)

\* write_entry(self, entry): levels 1 and 2 write the child table and return
\* true, level 3 writes the data entry and returns false.
WriteEntry(ctx, level, entry) ==
    IF level < 3 THEN FileWriter_write_table(ctx, level + 1, entry)
    ELSE WriteDataEntry(ctx, entry)

\* One iteration of the loop of write_table, from set_pos(frontier) on.
WriteTableLoop(ctx, level, table, keys, i, table_base, frontier) ==
    IF i = Len(keys) THEN Ctx(FileWriter_set_pos(ctx.file, frontier), ctx.relocations)
    ELSE WriteTableLoop_AfterEntry(
           WriteEntry(Ctx(FileWriter_set_pos(ctx.file, frontier), ctx.relocations),
                      level, table[keys[i + 1]]),
           FileWriter_current_offset(FileWriter_set_pos(ctx.file, frontier)),
           level, table, keys, i, table_base)

\* The rest of the iteration: c1 is the state write_entry left, offset the
\* offset taken before it.
WriteTableLoop_AfterEntry(c1, offset, level, table, keys, i, table_base) ==
    IF c1.file.panic THEN c1
    ELSE WriteTableLoop(
           Ctx(write_bytes(
                 write_u32(FileWriter_set_pos(c1.file,
                                              table_base + i * RESOURCE_TABLE_ENTRY_SIZE),
                           KeyU32(level, keys[i + 1])),
                 u32_with_bit31_to_le_bytes(offset, level < 3)),
               c1.relocations),
           level, table, keys, i + 1, table_base, pos(c1.file))

\* write_table once the 16 header bytes are written.
WriteTableEntries(ctx, level, table) ==
    WriteTableLoop(ctx, level, table, SortedKeys(level, DOMAIN table), 0,
                   pos(ctx.file),
                   pos(ctx.file) + Cardinality(DOMAIN table) * RESOURCE_TABLE_ENTRY_SIZE)

FileWriter_write_table(ctx, level, table) ==
    LET w1 == write_u32(ctx.file, 0)                    \* Characteristics
        w2 == write_u32(w1, 0)                          \* TimeDateStamp
        w3 == write_u16(w2, 0)                          \* MajorVersion
        w4 == write_u16(w3, 0)                          \* MinorVersion
        w5 == write_u16(w4, 0)                          \* NumberOfNamedEntries
        w6 == write_u16(w5, Cardinality(DOMAIN table) % U16_LIMIT) \* NumberOfIdEntries
    IN  WriteTableEntries(Ctx(w6, ctx.relocations), level, table)

\* relocations.sort_by_key(|&(_, symbol_id)| symbol_id): a stable sort.
RECURSIVE InsertBySymbol(_, _)
InsertBySymbol(sorted, r) ==
    IF sorted = << >> THEN <<r>>
    ELSE IF r[2] < Head(sorted)[2] THEN <<r>> \o sorted
    ELSE <<Head(sorted)>> \o InsertBySymbol(Tail(sorted), r)

RECURSIVE SortRelocationsFrom(_, _)
SortRelocationsFrom(sorted, rest) ==
    IF rest = << >> THEN sorted
    ELSE SortRelocationsFrom(InsertBySymbol(sorted, Head(rest)), Tail(rest))

\* Mutant of the sort: the relocations stay in the order of the walk.
SortRelocations_WalkOrder(relocations) == relocations

SortRelocations(relocations) == SortRelocationsFrom(<< >>, relocations)

RECURSIVE WriteRelocations(_, _, _)
WriteRelocations(file, relocations, target_type) ==
    IF relocations = << >> \/ file.panic THEN file
    ELSE WriteRelocations(
           write_u16(write_u32(write_u32(file, Head(relocations)[1]),   \* rva
                               Head(relocations)[2]),                   \* symbol_id
                     RelocationType_id(target_type)),
           Tail(relocations), target_type)

Section(name, pointer_to_raw_data, size_of_raw_data, pointer_to_relocations, number_of_relocations) ==
    [name |-> name, pointer_to_raw_data |-> pointer_to_raw_data,
     size_of_raw_data |-> size_of_raw_data,
     pointer_to_relocations |-> pointer_to_relocations,
     number_of_relocations |-> number_of_relocations]

\* Each of the writers below returns the file and what the function returns.
\* write_table_section from the first file.align_to(4) on: f2 is the file
\* after it.
TableSection_AfterAlign(cw, pointer_to_raw_data, f2, relocations) ==
    [file |-> align_to(WriteRelocations(f2, SortRelocations(relocations),
                                        cw.target_type), 4),
     section |-> Section(Name_rsrc01, pointer_to_raw_data,
                         pos(f2) - pointer_to_raw_data,     \* size_of_raw_data
                         pos(f2),                           \* pointer_to_relocations
                         Len(relocations))]

TableSection_AfterTable(cw, pointer_to_raw_data, c) ==
    TableSection_AfterAlign(cw, pointer_to_raw_data, align_to(c.file, 4), c.relocations)

CoffWriter2_write_table_section(cw, file) ==
    TableSection_AfterTable(cw, pos(FileWriter_mark_section_start(file)),
        FileWriter_write_table(Ctx(FileWriter_mark_section_start(file), << >>),
                               1, cw.table))

DataSection_AfterAlign(pointer_to_raw_data, f3) ==
    [file |-> f3,
     section |-> Section(Name_rsrc02, pointer_to_raw_data,
                         pos(f3) - pointer_to_raw_data, 0, 0)]

CoffWriter2_write_data_section(cw, file) ==
    DataSection_AfterAlign(pos(FileWriter_mark_section_start(file)),
        align_to(write_bytes(FileWriter_mark_section_start(file), cw.data.data), 4))

\* Mutant of write_sections: the two slots of the payload section are left
\* as they are.
Sections_AssignSymbols_TableOnly(cw, table_section, d) ==
    [cw |-> [cw EXCEPT !.symbols =
               [@ EXCEPT
                  ![TABLE_SYMBOL + 1] = Symbol_Section(table_section.name, 1),
                  ![TABLE_SYMBOL + 2] =
                      Symbol_SectionAux(table_section.size_of_raw_data,
                                        table_section.number_of_relocations % U16_LIMIT)]],
     file |-> d.file,
     sections |-> <<table_section, d.section>>]

Sections_AssignSymbols(cw, table_section, d) ==
    [cw |-> [cw EXCEPT !.symbols =
               [@ EXCEPT
                  ![TABLE_SYMBOL + 1] = Symbol_Section(table_section.name, 1),
                  ![TABLE_SYMBOL + 2] =
                      Symbol_SectionAux(table_section.size_of_raw_data,
                                        table_section.number_of_relocations % U16_LIMIT),
                  ![DATA_SYMBOL + 1] = Symbol_Section(d.section.name, 2),
                  ![DATA_SYMBOL + 2] =
                      Symbol_SectionAux(d.section.size_of_raw_data,
                                        d.section.number_of_relocations % U16_LIMIT)]],
     file |-> d.file,
     sections |-> <<table_section, d.section>>]

Sections_AfterTable(cw, t) ==
    Sections_AssignSymbols(cw, t.section, CoffWriter2_write_data_section(cw, t.file))

CoffWriter2_write_sections(cw, file) ==
    Sections_AfterTable(cw, CoffWriter2_write_table_section(cw, file))

WriteSymbol(file, symbol) ==
    CASE symbol.tag = "Placeholder" -> Panic(file)   \* Placeholder symbol not replaced
      [] symbol.tag = "Section" ->
           LET w1 == write_bytes(file, symbol.name)             \* Name
               w2 == write_u32(w1, 0)                           \* Value
               w3 == write_u16(w2, symbol.section_number)       \* Section number
               w4 == write_u16(w3, 0)                           \* Type
               w5 == write_u8(w4, IMAGE_SYM_CLASS_STATIC)       \* Storage class
           IN  write_u8(w5, 1)                       \* Number of auxiliary symbols
      [] symbol.tag = "SectionAux" ->
           LET w1 == write_u32(file, symbol.length)             \* Length
               w2 == write_u16(w1, symbol.number_of_relocations)
               w3 == write_u16(w2, 0)                           \* Number of lines
           IN  reserve(w3, 10)              \* Checksum, Number, Selection, Unused
      [] symbol.tag = "Resource" ->
           LET w1 == write_bytes(file, symbol.name)             \* Name
               w2 == write_u32(w1, symbol.offset)               \* Value
               w3 == write_u16(w2, symbol.section_number)       \* Section number
               w4 == write_u16(w3, 0)                           \* Type
               w5 == write_u8(w4, IMAGE_SYM_CLASS_STATIC)       \* Storage class
           IN  write_u8(w5, 0)                       \* Number of auxiliary symbols

RECURSIVE WriteSymbols(_, _)
WriteSymbols(file, symbols) ==
    IF symbols = << >> \/ file.panic THEN file
    ELSE WriteSymbols(WriteSymbol(file, Head(symbols)), Tail(symbols))

\* Mutant of write_symbol_table: the auxiliary records are not counted.
SymbolTable_AfterAlign_PrimaryOnly(cw, f1) ==
    [file |-> WriteSymbols(f1, cw.symbols),
     symbol_table_pointer |-> pos(f1),
     number_of_symbols |-> Len(cw.symbols) - 2]

SymbolTable_AfterAlign(cw, f1) ==
    [file |-> WriteSymbols(f1, cw.symbols),
     symbol_table_pointer |-> pos(f1),
     number_of_symbols |-> Len(cw.symbols)]

CoffWriter2_write_symbol_table(cw, file) ==
    SymbolTable_AfterAlign(cw, align_to(file, 4))

\* Mutant of the string table: it is left out.
StringTable_Missing == << >>

\* The empty string table: &[0; 4].
StringTable == Zeros(4)

RECURSIVE WriteSectionHeaders(_, _)
WriteSectionHeaders(file, sections) ==
    IF sections = << >> \/ file.panic THEN file
    ELSE LET section == Head(sections)
             w1 == write_bytes(file, section.name)
             w2 == write_u32(w1, 0)                              \* physical address
             w3 == write_u32(w2, 0)                              \* virtual address
             w4 == write_u32(w3, section.size_of_raw_data)
             w5 == write_u32(w4, section.pointer_to_raw_data)
             w6 == write_u32(w5, section.pointer_to_relocations)
             w7 == write_u32(w6, 0)                              \* pointer to line numbers
             w8 == write_u16(w7, section.number_of_relocations % U16_LIMIT)
             w9 == write_u16(w8, 0)                              \* number of line numbers
             w10 == write_bytes(w9, SectionCharacteristicsBytes)
         IN  WriteSectionHeaders(w10, Tail(sections))

\* assert_eq!(file.pos(), expected)
AssertPos(file, expected) == IF pos(file) = expected THEN file ELSE Panic(file)

\* finish(self) returns the writer as finish leaves it and the file written;
\* the Vec<u8> returned is file.data.
Finish_SectionHeaders(cw, sections, f10) ==
    [cw |-> cw,
     file |-> IF f10.panic THEN f10
              ELSE AssertPos(WriteSectionHeaders(f10, sections),
                             FILE_HEADER_SIZE + 2 * SECTION_HEADER_SIZE)]

\* Mutant of the file header: the low word of the timestamp is written to
\* the optional-header-size field too.
Finish_FileHeader_StampedTwice(cw, sections, t, timestamp) ==
    IF t.file.panic THEN [cw |-> cw, file |-> t.file] ELSE
    LET f1 == write_bytes(t.file, StringTable)
        f2 == FileWriter_set_pos(f1, 0)
        f3 == write_u16(f2, TargetType_id(cw.target_type))
        f4 == write_u16(f3, 2)
        f5 == write_u32(f4, timestamp)
        f6 == write_u32(f5, t.symbol_table_pointer)
        f7 == write_u32(f6, t.number_of_symbols)
        f8 == write_u16(f7, timestamp % U16_LIMIT)
        f9 == write_u16(f8, IMAGE_FILE_32BIT_MACHINE)
    IN  Finish_SectionHeaders(cw, sections, AssertPos(f9, FILE_HEADER_SIZE))

Finish_FileHeader(cw, sections, t, timestamp) ==
    IF t.file.panic THEN [cw |-> cw, file |-> t.file] ELSE
    LET f1 == write_bytes(t.file, StringTable)           \* String table
        f2 == FileWriter_set_pos(f1, 0)
        f3 == write_u16(f2, TargetType_id(cw.target_type))
        f4 == write_u16(f3, 2)                           \* number of sections
        f5 == write_u32(f4, timestamp)
        f6 == write_u32(f5, t.symbol_table_pointer)
        f7 == write_u32(f6, t.number_of_symbols)
        f8 == write_u16(f7, 0)                           \* optional header size
        f9 == write_u16(f8, IMAGE_FILE_32BIT_MACHINE)    \* flags
    IN  Finish_SectionHeaders(cw, sections, AssertPos(f9, FILE_HEADER_SIZE))

Finish_AfterSections(s, timestamp) ==
    IF s.file.panic THEN [cw |-> s.cw, file |-> s.file]
    ELSE Finish_FileHeader(s.cw, s.sections,
                           CoffWriter2_write_symbol_table(s.cw, s.file), timestamp)

CoffWriter2_finish(cw, timestamp) ==
    Finish_AfterSections(
        CoffWriter2_write_sections(cw,
            FileWriter_set_pos(FileWriter_default,
                               FILE_HEADER_SIZE + SECTION_HEADER_SIZE * 2)),
        timestamp)

(***************************************************************************)
(* The builder (lib.rs): add_icon, add_manifest, compile_to_res and        *)
(* compile_to_coff.  compile_to_coff drives the two-section emitter, whose *)
(* new / add_resource / finish it calls.                                   *)
(***************************************************************************)
PNG_SIGNATURE == <<137, 80, 78, 71, 13, 10, 26, 10>>

\* Icon::from_png_bytes: the three assertions on the bytes given.
Icon_is_valid_png(data) ==
    /\ Len(data) >= 26
    /\ SubSeq(data, 1, 8) = PNG_SIGNATURE
    /\ SubSeq(data, 13, 16) = <<73, 72, 68, 82>>           \* b"IHDR"
    /\ data[25] = 8 /\ data[26] = 6                        \* bit depth, colour type

ICON_BASE_ID == 128

\* VersionInfo::default().  A Version is <<major, minor, patch, build>>; the
\* flags set is held as the word its members are ORed into; the strings
\* BTreeMap is the sequence of its <<key, value>> pairs in key order.
VersionInfo_default ==
    [file_version |-> <<0, 0, 0, 0>>, product_version |-> <<0, 0, 0, 0>>,
     file_flags |-> 0, file_type |-> "Exe", strings |-> << >>]

\* `a < b` for two Strings: lexicographic on the code units.
RECURSIVE String_less(_, _)
String_less(a, b) ==
    IF b = << >> THEN FALSE
    ELSE IF a = << >> THEN TRUE
    ELSE IF Head(a) # Head(b) THEN Head(a) < Head(b)
    ELSE String_less(Tail(a), Tail(b))

\* BTreeMap<String, String>::insert: the value of an existing key is
\* replaced, a new key takes its place in key order.
RECURSIVE StringMap_insert(_, _, _)
StringMap_insert(m, key, value) ==
    IF m = << >> THEN << <<key, value>> >>
    ELSE IF Head(m)[1] = key THEN << <<key, value>> >> \o Tail(m)
    ELSE IF String_less(key, Head(m)[1]) THEN << <<key, value>> >> \o m
    ELSE <<Head(m)>> \o StringMap_insert(Tail(m), key, value)

ResourceBuilder_set_file_version(rb, version) ==
    [rb EXCEPT !.version.file_version = version]

ResourceBuilder_set_product_version(rb, version) ==
    [rb EXCEPT !.version.product_version = version]

ResourceBuilder_set_file_type(rb, file_type) ==
    [rb EXCEPT !.version.file_type = file_type]

ResourceBuilder_add_string(rb, key, value) ==
    [rb EXCEPT !.version.strings = StringMap_insert(@, key, value)]

\* manifest: << >> is None, <<m>> is Some(m).
ResourceBuilder_default ==
    [version |-> VersionInfo_default, icon_groups |-> << >>, icons |-> << >>,
     manifest |-> << >>, panic |-> FALSE]

ResourceBuilder_add_manifest(rb, manifest) ==
    IF rb.manifest # << >> THEN [rb EXCEPT !.panic = TRUE]     \* Manifest already set
    ELSE [rb EXCEPT !.manifest = <<manifest>>]

\* Mutant of add_icon: the id is not checked against the icon groups.
ResourceBuilder_add_icon_Unchecked(rb, id, icon) ==
    [rb EXCEPT
       !.icon_groups = Append(@, <<id, <<[icon_id |-> (ICON_BASE_ID + Len(rb.icons)) % U16_LIMIT,
                                         icon_size |-> Len(icon)]>>>>),
       !.icons = Append(@, <<(ICON_BASE_ID + Len(rb.icons)) % U16_LIMIT, icon>>)]

ResourceBuilder_add_icon(rb, id, icon) ==
    IF \E n \in 1..Len(rb.icon_groups) : rb.icon_groups[n][1] = id
    THEN [rb EXCEPT !.panic = TRUE]                            \* Duplicate icon id
    ELSE [rb EXCEPT
            !.icon_groups = Append(@, <<id, <<[icon_id |-> (ICON_BASE_ID + Len(rb.icons)) % U16_LIMIT,
                                              icon_size |-> Len(icon)]>>>>),
            !.icons = Append(@, <<(ICON_BASE_ID + Len(rb.icons)) % U16_LIMIT, icon>>)]

\* add_icon as the two build profiles run it.  `ICON_BASE_ID + len as u16` is
\* u16 arithmetic: past 65535 it wraps where overflow checks are off (the
\* release profile) and panics where they are on (the dev profile).
ResourceBuilder_add_icon_profiles(rb, id, icon) ==
    {ResourceBuilder_add_icon(rb, id, icon)}
    \cup (IF ICON_BASE_ID + (Len(rb.icons) % U16_LIMIT) >= U16_LIMIT
          THEN {[rb EXCEPT !.panic = TRUE]}                   \* attempt to add with overflow
          ELSE {})

\* The add_resource calls of compile_to_coff after the first, as loops.
RECURSIVE Coff_AddIcons(_, _)
Coff_AddIcons(cw, icons) ==
    IF icons = << >> \/ cw.panic THEN cw
    ELSE Coff_AddIcons(
           CoffWriter2_add_resource(cw, "Icon", Head(icons)[1], BytesPayload(Head(icons)[2])),
           Tail(icons))

RECURSIVE Coff_AddIconGroups(_, _)
Coff_AddIconGroups(cw, icon_groups) ==
    IF icon_groups = << >> \/ cw.panic THEN cw
    ELSE Coff_AddIconGroups(
           CoffWriter2_add_resource(cw, "IconGroup", Head(icon_groups)[1],
                                    IconGroupPayload(Head(icon_groups)[2])),
           Tail(icon_groups))

Coff_AddManifest(cw, manifest) ==
    IF manifest = << >> \/ cw.panic THEN cw
    ELSE CoffWriter2_add_resource(cw, "Manifest", 1, BytesPayload(manifest[1]))

\* writer.finish(), when no add_resource call has panicked.
Coff_Finish(cw, timestamp) ==
    IF cw.panic THEN [cw |-> cw, file |-> Panic(FileWriter_default)]
    ELSE CoffWriter2_finish(cw, timestamp)

ResourceBuilder_compile_to_coff(rb, target, timestamp) ==
    Coff_Finish(
      Coff_AddManifest(
        Coff_AddIconGroups(
          Coff_AddIcons(
            CoffWriter2_add_resource(CoffWriter2_new(target), "Version", 1,
                                     VersionPayload(rb.version)),
            rb.icons),
          rb.icon_groups),
        rb.manifest),
      timestamp)

RECURSIVE Res_WriteIcons(_, _)
Res_WriteIcons(w, icons) ==
    IF icons = << >> \/ w.panic THEN w
    ELSE Res_WriteIcons(
           ResourceFile_write_resource(w, "Icon", Head(icons)[1], BytesPayload(Head(icons)[2])),
           Tail(icons))

RECURSIVE Res_WriteIconGroups(_, _)
Res_WriteIconGroups(w, icon_groups) ==
    IF icon_groups = << >> \/ w.panic THEN w
    ELSE Res_WriteIconGroups(
           ResourceFile_write_resource(w, "IconGroup", Head(icon_groups)[1],
                                       IconGroupPayload(Head(icon_groups)[2])),
           Tail(icon_groups))

Res_WriteManifest(w, manifest) ==
    IF manifest = << >> \/ w.panic THEN w
    ELSE ResourceFile_write_resource(w, "Manifest", 1, BytesPayload(manifest[1]))

\* Mutant of compile_to_res: the icon groups are written before the icons.
ResourceBuilder_compile_to_res_GroupsFirst(rb) ==
    Res_WriteManifest(
      Res_WriteIcons(
        Res_WriteIconGroups(
          ResourceFile_write_resource(
            ResourceFile_write_resource(ResourceFile_new, "None", 0, UnitPayload),
            "Version", 1, VersionPayload(rb.version)),
          rb.icon_groups),
        rb.icons),
      rb.manifest)

ResourceBuilder_compile_to_res(rb) ==
    Res_WriteManifest(
      Res_WriteIconGroups(
        Res_WriteIcons(
          ResourceFile_write_resource(
            ResourceFile_write_resource(ResourceFile_new, "None", 0, UnitPayload),
            "Version", 1, VersionPayload(rb.version)),
          rb.icons),
        rb.icon_groups),
      rb.manifest)

(***************************************************************************)
(* State.                                                                  *)
(***************************************************************************)
VARIABLES
    resw,       \* the .res writer (ResourceFile)
    resLog,     \* the write_resource calls made on it, in order
    cw2,        \* the two-section COFF writer (CoffWriter2)
    coffLog,    \* the add_resource calls made on it, in order
    coffFile,   \* the Vec<u8> finish returned, << >> before
    coffDone,   \* finish has consumed the writer
    rb,         \* the ResourceBuilder
    out,        \* the ResourceFile the last compile_to_* call returned
    wr,         \* a writer driven through the BinaryWriter trait
    wrLog,      \* the calls made on it, each with the writer it found
    bslice,     \* the BinarySlice borrowing the writer, if one is open
    lcw,        \* the legacy CoffWriter (coff.rs)
    ldirs,      \* the CoffDirectoryWriter values handed out, in order
    lentries,   \* the CoffDataEntry values handed out, in order
    lfile,      \* what CoffWriter::finish returned
    llog        \* the calls made on the handles of the legacy writer, in order

vars == <<resw, resLog, cw2, coffLog, coffFile, coffDone, rb, out, wr, wrLog, bslice, lcw, ldirs, lentries, lfile, llog>>

resVars == <<resw, resLog>>

coffVars == <<cw2, coffLog, coffFile, coffDone>>

builderVars == <<rb, out>>

writerVars == <<wr, wrLog, bslice>>

legacyVars == <<lcw, ldirs, lentries, lfile, llog>>

\* What the actions of one component leave unchanged.
exceptRes == <<coffVars, builderVars, writerVars, legacyVars>>

exceptCoff == <<resVars, builderVars, writerVars, legacyVars>>

exceptBuilder == <<resVars, coffVars, writerVars, legacyVars>>

exceptWriter == <<resVars, coffVars, builderVars, legacyVars>>

exceptLegacy == <<resVars, coffVars, builderVars, writerVars>>

(***************************************************************************)
(* Inputs.                                                                 *)
(***************************************************************************)
\* A byte payload of n bytes, all different.
Bytes(n) == [j \in 1..n |-> 160 + j]

PayloadLens == {0, 1, 2, 3, 4, 8}

BytePayloads == {BytesPayload(Bytes(n)) : n \in PayloadLens}

FixedInfos ==
    {[file_version |-> <<1, 2, 3, 4>>, product_version |-> <<5, 6, 7, 8>>,
      file_flags |-> 0]}

ResPayloads ==
    {UnitPayload} \cup BytePayloads
    \cup {IconGroupPayload(<<[icon_id |-> 128, icon_size |-> 3]>>)}
    \cup {VersionPayload(fx) : fx \in FixedInfos}

ResNames == {1, 128}

(***************************************************************************)
(* The .res emitter as a state machine: write_resource calls on one        *)
(* ResourceFile, starting empty.                                           *)
(***************************************************************************)
\* The writer when the header of the next record is complete, and when the
\* payload serializer has returned: the two positions write_resource measures
\* the payload between.
ResAtDataStart(w, ty, name) ==
    ResourceFile_write_resource(w, ty, name, UnitPayload)

ResWriteResource(ty, name, data) ==
    /\ Len(resLog) < MaxRecords
    /\ ~resw.panic
    /\ resw' = ResourceFile_write_resource(resw, ty, name, data)
    /\ resLog' = Append(resLog,
                   [ty |-> ty, name |-> name, start |-> pos(resw),
                    appended |-> pos(write_to(data, ResAtDataStart(resw, ty, name)))
                                 - pos(ResAtDataStart(resw, ty, name))])
    /\ UNCHANGED exceptRes

InitRes ==
    /\ resw = ResourceFile_new
    /\ resLog = << >>

NextRes ==
    \E ty \in ResourceTypes, name \in ResNames, data \in ResPayloads :
        ResWriteResource(ty, name, data)

(***************************************************************************)
(* The two-section COFF emitter as a state machine: add_resource calls on  *)
(* one CoffWriter2, then finish.                                           *)
(***************************************************************************)
CoffPayloadLens == {0, 3, 8}

CoffPayloads == {BytesPayload(Bytes(n)) : n \in CoffPayloadLens}

CoffIds == {1, 2}

\* SystemTime::now() as seconds since the epoch; 0 when the clock is before it.
Timestamps == {0, 1700000000}

CoffAddResource(ty, id, data) ==
    /\ ~coffDone
    /\ ~cw2.panic
    /\ Len(coffLog) < MaxAdds
    /\ \E next \in {CoffWriter2_add_resource(cw2, ty, id, data)} :
          /\ cw2' = next
          /\ coffLog' = Append(coffLog,
                          [ty |-> ty, id |-> id,
                           offset |-> pos(cw2.data),
                           appended |-> IF next.panic THEN 0
                                        ELSE next.table[ty][id][LANG_US].size,
                           symbol_id |-> Len(cw2.symbols)])
    /\ UNCHANGED <<coffFile, coffDone>>
    /\ UNCHANGED exceptCoff

CoffFinish(timestamp) ==
    /\ ~coffDone
    /\ ~cw2.panic
    /\ \E r \in {CoffWriter2_finish(cw2, timestamp)} :
          /\ cw2' = [r.cw EXCEPT !.panic = r.file.panic]
          /\ coffFile' = IF r.file.panic THEN << >> ELSE r.file.data
    /\ coffDone' = TRUE
    /\ UNCHANGED coffLog
    /\ UNCHANGED exceptCoff

InitCoff ==
    /\ cw2 \in {CoffWriter2_new(t) : t \in TargetTypes}
    /\ coffLog = << >>
    /\ coffFile = << >>
    /\ coffDone = FALSE

\* A component that the specification at hand leaves alone.
IdleRes == InitRes

IdleCoff ==
    /\ cw2 = CoffWriter2_new("X86_64")
    /\ coffLog = << >>
    /\ coffFile = << >>
    /\ coffDone = FALSE

NextCoff ==
    \/ \E ty \in ResourceTypes, id \in CoffIds, data \in CoffPayloads :
            CoffAddResource(ty, id, data)
    \/ \E timestamp \in Timestamps : CoffFinish(timestamp)

(***************************************************************************)
(* The builder as a state machine: add_icon and add_manifest calls, and    *)
(* compile_to_res / compile_to_coff on the builder as it stands.           *)
(***************************************************************************)
\* A PNG of 26 + n bytes that from_png_bytes accepts.
Png(n) ==
    PNG_SIGNATURE \o <<0, 0, 0, 13>> \o <<73, 72, 68, 82>> \o <<0, 0, 0, 1, 0, 0, 0, 1>>
    \o <<8, 6>> \o Bytes(n)

Icons == {Png(0), Png(3)}

IconIds == {1, 2}

Manifests == {<<60, 97, 47, 62>>}                  \* "<a/>"

NoFile == [kind |-> "None", data |-> << >>, target |-> "None", of |-> ResourceBuilder_default]

BuilderAddIcon(id, icon) ==
    /\ ~rb.panic
    /\ Len(rb.icons) < MaxIcons
    /\ Icon_is_valid_png(icon)
    /\ rb' \in ResourceBuilder_add_icon_profiles(rb, id, icon)
    /\ UNCHANGED out
    /\ UNCHANGED exceptBuilder

BuilderAddManifest(manifest) ==
    /\ ~rb.panic
    /\ rb' = ResourceBuilder_add_manifest(rb, manifest)
    /\ UNCHANGED out
    /\ UNCHANGED exceptBuilder

\* One compile_to_* call is followed per behaviour: `out` holds its result.
BuilderCompileToRes ==
    /\ ~rb.panic
    /\ out.kind = "None"
    /\ \E w \in {ResourceBuilder_compile_to_res(rb)} :
          out' = IF w.panic THEN NoFile
                 ELSE [kind |-> "Res", data |-> w.data, target |-> "None", of |-> rb]
    /\ UNCHANGED rb
    /\ UNCHANGED exceptBuilder

BuilderCompileToCoff(target, timestamp) ==
    /\ ~rb.panic
    /\ out.kind = "None"
    /\ \E r \in {ResourceBuilder_compile_to_coff(rb, target, timestamp)} :
          out' = IF r.file.panic THEN NoFile
                 ELSE [kind |-> "Coff", data |-> r.file.data, target |-> target, of |-> rb]
    /\ UNCHANGED rb
    /\ UNCHANGED exceptBuilder

BuilderSetFileVersion(version) ==
    /\ ~rb.panic
    /\ out.kind = "None"
    /\ rb' = ResourceBuilder_set_file_version(rb, version)
    /\ UNCHANGED out
    /\ UNCHANGED exceptBuilder

BuilderSetProductVersion(version) ==
    /\ ~rb.panic
    /\ out.kind = "None"
    /\ rb' = ResourceBuilder_set_product_version(rb, version)
    /\ UNCHANGED out
    /\ UNCHANGED exceptBuilder

BuilderSetFileType(file_type) ==
    /\ ~rb.panic
    /\ out.kind = "None"
    /\ rb' = ResourceBuilder_set_file_type(rb, file_type)
    /\ UNCHANGED out
    /\ UNCHANGED exceptBuilder

BuilderAddString(key, value) ==
    /\ ~rb.panic
    /\ out.kind = "None"
    /\ rb' = ResourceBuilder_add_string(rb, key, value)
    /\ UNCHANGED out
    /\ UNCHANGED exceptBuilder

InitBuilder ==
    /\ rb = ResourceBuilder_default
    /\ out = NoFile

IdleBuilder == InitBuilder

NextBuilder ==
    \/ \E id \in IconIds, icon \in Icons : BuilderAddIcon(id, icon)
    \/ \E manifest \in Manifests : BuilderAddManifest(manifest)
    \/ BuilderCompileToRes
    \/ \E target \in TargetTypes, timestamp \in Timestamps :
          BuilderCompileToCoff(target, timestamp)

(***************************************************************************)
(* The legacy single-section COFF writer (coff.rs): CoffWriter, the scoped *)
(* BinarySlice, CoffDirectoryWriter and CoffDataEntry.                     *)
(***************************************************************************)
CoffWriter_HEADER_SIZE == 60

CoffDirectoryWriter_ENTRY_SIZE == 8

CoffDataEntry_ENTRY_SIZE == 16

\* b".rsrc\0\0\0"
Name_rsrc == <<46, 114, 115, 114, 99, 0, 0, 0>>

\* CoffWriter::new(target): HEADER_SIZE zero bytes, no relocations.
CoffWriter_new(target) ==
    [kind |-> "CoffWriter", data |-> Zeros(CoffWriter_HEADER_SIZE),
     current_position |-> 0, section_start |-> 0, panic |-> FALSE,
     relocations |-> 0, target |-> target]

\* BinaryWriter::slice
slice(w, index, length) ==
    [inner |-> w, start |-> index, length |-> length, pos |-> 0]

\* Mutant of write_bytes: the window is not checked.
BinarySlice_write_bytes_Unchecked(s, bytes) ==
    [s EXCEPT !.inner = write_bytes_at(@, s.start + s.pos, bytes),
              !.pos = @ + Len(bytes)]

\* impl BinaryWriter for BinarySlice: write_bytes asserts the bytes fit.
BinarySlice_write_bytes(s, bytes) ==
    IF s.pos + Len(bytes) > s.length
    THEN [s EXCEPT !.inner = Panic(@)]
    ELSE [s EXCEPT !.inner = write_bytes_at(@, s.start + s.pos, bytes),
                   !.pos = @ + Len(bytes)]

\* Consecutive writes through one slice.
RECURSIVE BinarySlice_write_all(_, _)
BinarySlice_write_all(s, chunks) ==
    IF chunks = << >>
    THEN s
    ELSE BinarySlice_write_all(BinarySlice_write_bytes(s, Head(chunks)), Tail(chunks))

\* impl Drop for BinarySlice: the slice must have been filled.
BinarySlice_drop(s) == IF s.pos = s.length THEN s.inner ELSE Panic(s.inner)

\* CoffWriter::write_relocation(address, RelocationType::Rva32)
CoffWriter_write_relocation(cw, address) ==
    write_u16(write_bytes(write_u32([cw EXCEPT !.relocations = @ + 1], address),
                          <<0, 0, 0, 0>>),
              RelocationType_id(cw.target))

\* The rest of allocate, once the 16-byte node header is written.
CoffDirectoryWriter_AfterHeader(w, entries) ==
    [cw |-> reserve(w, entries * CoffDirectoryWriter_ENTRY_SIZE),
     dir |-> [current_index |-> pos(w),
              final_index |-> pos(w) + entries * CoffDirectoryWriter_ENTRY_SIZE]]

\* CoffDirectoryWriter::allocate
CoffDirectoryWriter_allocate(cw, entries) ==
    CoffDirectoryWriter_AfterHeader(
        write_u16(write_u16(write_u16(write_u16(write_u32(write_u32(cw, 0), 0), 0), 0), 0),
                  entries),
        entries)

\* CoffDirectoryWriter::write_entry.  The offset is below 2^31 here, so the
\* "Too much data" assertion holds.
\* Mutant of write_entry: the room left in the directory is not checked.
CoffDirectoryWriter_write_entry_Unchecked(dir, cw, id, leaf) ==
    [cw |-> BinarySlice_drop(BinarySlice_write_all(
               slice(cw, dir.current_index, CoffDirectoryWriter_ENTRY_SIZE),
               <<u32_to_le_bytes(id),
                 u32_with_bit31_to_le_bytes(pos(cw) - CoffWriter_HEADER_SIZE, ~leaf)>>)),
     dir |-> [dir EXCEPT !.current_index = @ + CoffDirectoryWriter_ENTRY_SIZE]]

CoffDirectoryWriter_write_entry(dir, cw, id, leaf) ==
    IF dir.current_index >= dir.final_index
    THEN [cw |-> Panic(cw), dir |-> dir]
    ELSE [cw |-> BinarySlice_drop(BinarySlice_write_all(
                    slice(cw, dir.current_index, CoffDirectoryWriter_ENTRY_SIZE),
                    <<u32_to_le_bytes(id),
                      u32_with_bit31_to_le_bytes(pos(cw) - CoffWriter_HEADER_SIZE, ~leaf)>>)),
          dir |-> [dir EXCEPT !.current_index = @ + CoffDirectoryWriter_ENTRY_SIZE]]

\* The writer and the handle an allocation made, with the parent directory.
WithParent(parent, a) == [parent |-> parent, cw |-> a.cw, child |-> a]

SubdirectoryAfterEntry(r, entries) ==
    WithParent(r.dir, CoffDirectoryWriter_allocate(r.cw, entries))

\* CoffDirectoryWriter::subdirectory
CoffDirectoryWriter_subdirectory(dir, cw, id, entries) ==
    SubdirectoryAfterEntry(CoffDirectoryWriter_write_entry(dir, cw, id, FALSE), entries)

\* CoffDataEntry::allocate
CoffDataEntry_allocate(cw) ==
    [cw |-> reserve(cw, CoffDataEntry_ENTRY_SIZE),
     entry |-> [index |-> pos(cw), written |-> FALSE]]

DataEntryAfterEntry(r) == WithParent(r.dir, CoffDataEntry_allocate(r.cw))

\* CoffDirectoryWriter::data_entry
CoffDirectoryWriter_data_entry(dir, cw, id) ==
    DataEntryAfterEntry(CoffDirectoryWriter_write_entry(dir, cw, id, TRUE))

\* The rest of write_data, once the payload is written: w holds the payload,
\* which started at start.
WriteDataAfterPayload(entry, start, w) ==
    [cw |-> BinarySlice_drop(BinarySlice_write_all(
               slice(Legacy_align_to(w, 8), entry.index, CoffDataEntry_ENTRY_SIZE),
               <<u32_to_le_bytes(start - CoffWriter_HEADER_SIZE),  \* OffsetToData
                 u32_to_le_bytes(pos(w) - start),                  \* Size
                 u32_to_le_bytes(0),                               \* CodePage
                 u32_to_le_bytes(0)>>)),                           \* Reserve
     entry |-> [entry EXCEPT !.written = TRUE]]

\* CoffDataEntry::write_data
CoffDataEntry_write_data(entry, coff, data) ==
    WriteDataAfterPayload(entry, pos(coff), write_to(data, coff))

\* CoffDataEntry::write_relocation
CoffDataEntry_write_relocation(entry, coff) ==
    CoffWriter_write_relocation(coff, entry.index)

\* The file and section headers finish writes through a slice over the first
\* HEADER_SIZE bytes.
CoffWriter_header(cw, timestamp, pointer_to_symbol_table, data_size) ==
    <<u16_to_le_bytes(TargetType_id(cw.target)),
      <<1, 0>>,                                       \* number of sections
      u32_to_le_bytes(timestamp),
      u32_to_le_bytes(pointer_to_symbol_table),
      <<2, 0, 0, 0>>,                                 \* number of symbol table entries
      Zeros(4),
      Name_rsrc,
      u32_to_le_bytes(0),                             \* physical address
      u32_to_le_bytes(0),                             \* virtual address
      u32_to_le_bytes(data_size),
      <<60, 0, 0, 0>>,                                \* pointer to raw data
      u32_to_le_bytes(data_size + CoffWriter_HEADER_SIZE), \* pointer to relocations
      Zeros(4),
      u16_to_le_bytes(cw.relocations),
      Zeros(2),
      <<64, 0, 48, 192>>>>                            \* characteristics

\* The section symbol, its auxiliary record and the empty string table.
CoffWriter_symbols(cw, data_size) ==
    write_bytes(write_bytes(write_u16(write_u32(
        write_bytes(write_bytes(write_bytes(write_bytes(cw, Name_rsrc),
            <<0, 0, 0, 0>>), <<1, 0>>), <<0, 0, 3, 1>>),
        data_size), cw.relocations), Zeros(12)), Zeros(4))

\* CoffWriter::finish, with the clock reading timestamp.
CoffWriter_finish(cw, timestamp) ==
    BinarySlice_drop(BinarySlice_write_all(
        slice(CoffWriter_symbols(cw, pos(cw) - CoffWriter_HEADER_SIZE),
              0, CoffWriter_HEADER_SIZE),
        CoffWriter_header(cw, timestamp, pos(cw), pos(cw) - CoffWriter_HEADER_SIZE)))

(***************************************************************************)
(* The three writers behind the BinaryWriter trait as a state machine:     *)
(* write_bytes, reserve and write_bytes_at on any of them, set_pos on the  *)
(* FileWriter.                                                             *)
(***************************************************************************)

WriterBytes == {<< >>, <<7>>, <<7, 8>>}

AlignArgs == {1, 4, 8}

\* Offsets around the position of the writer.
WriterOffsets(w) == {0, pos(w) - 1, pos(w), pos(w) + 1} \cap Nat

\* No slice is open.
NoSlice == [open |-> FALSE, start |-> 0, length |-> 0, pos |-> 0]

\* The writer can be called: it has not failed and no slice borrows it.
WriterFree == ~wr.panic /\ ~bslice.open

WriterCall(op, index, bytes) ==
    [op |-> op, index |-> index, bytes |-> bytes, before |-> wr, slice |-> bslice]

WriterWriteBytes(bytes) ==
    /\ WriterFree
    /\ Len(wrLog) < MaxOps
    /\ wr' = write_bytes(wr, bytes)
    /\ wrLog' = Append(wrLog, WriterCall("write_bytes", 0, bytes))
    /\ UNCHANGED <<bslice, exceptWriter>>

WriterReserve(amount) ==
    /\ WriterFree
    /\ Len(wrLog) < MaxOps
    /\ wr' = reserve(wr, amount)
    /\ wrLog' = Append(wrLog, WriterCall("reserve", amount, << >>))
    /\ UNCHANGED <<bslice, exceptWriter>>

WriterWriteBytesAt(index, bytes) ==
    /\ WriterFree
    /\ Len(wrLog) < MaxOps
    /\ wr' = write_bytes_at(wr, index, bytes)
    /\ wrLog' = Append(wrLog, WriterCall("write_bytes_at", index, bytes))
    /\ UNCHANGED <<bslice, exceptWriter>>

\* ResourceFile::realign of writing.rs: (4 - (pos & 0b11)) & 0b11 zero bytes.
Writing_realign(w) ==
    LET required_padding == (4 - (pos(w) % 4)) % 4
    IN  [w EXCEPT !.data = @ \o Zeros(required_padding)]

\* align_to as the writer's trait provides it: the trait of coff.rs for the
\* legacy CoffWriter, the trait of binary.rs for the other two.
Writer_align_to(w, k) ==
    IF w.kind = "CoffWriter" THEN Legacy_align_to(w, k) ELSE align_to(w, k)

WriterAlignTo(k) ==
    /\ WriterFree
    /\ Len(wrLog) < MaxOps
    /\ wr' = Writer_align_to(wr, k)
    /\ wrLog' = Append(wrLog, WriterCall("align_to", k, << >>))
    /\ UNCHANGED <<bslice, exceptWriter>>

WriterRealign ==
    /\ WriterFree
    /\ wr.kind = "ResourceFile"
    /\ Len(wrLog) < MaxOps
    /\ wr' = Writing_realign(wr)
    /\ wrLog' = Append(wrLog, WriterCall("realign", 4, << >>))
    /\ UNCHANGED <<bslice, exceptWriter>>

WriterSetPos(p) ==
    /\ WriterFree
    /\ wr.kind = "FileWriter"
    /\ Len(wrLog) < MaxOps
    /\ wr' = FileWriter_set_pos(wr, p)
    /\ wrLog' = Append(wrLog, WriterCall("set_pos", p, << >>))
    /\ UNCHANGED <<bslice, exceptWriter>>

\* The open BinarySlice with the writer it borrows, and back.
OpenSlice ==
    [inner |-> wr, start |-> bslice.start, length |-> bslice.length, pos |-> bslice.pos]

SliceState(s) ==
    [open |-> TRUE, start |-> s.start, length |-> s.length, pos |-> s.pos]

SliceWindows == {<<0, 2>>, <<1, 0>>, <<1, 1>>}

\* let s = w.slice(index, length)
WriterSlice(index, length) ==
    /\ WriterFree
    /\ Len(wrLog) < MaxOps
    /\ bslice' = SliceState(slice(wr, index, length))
    /\ wrLog' = Append(wrLog, WriterCall("slice", index, << >>))
    /\ UNCHANGED <<wr, exceptWriter>>

\* s.write_bytes(bytes)
SliceWriteBytes(bytes) ==
    /\ ~wr.panic
    /\ bslice.open
    /\ Len(wrLog) < MaxOps
    /\ \E s \in {BinarySlice_write_bytes(OpenSlice, bytes)} :
          /\ wr' = s.inner
          /\ bslice' = SliceState(s)
    /\ wrLog' = Append(wrLog, WriterCall("slice_write", 0, bytes))
    /\ UNCHANGED exceptWriter

\* s goes out of scope.
SliceDrop ==
    /\ ~wr.panic
    /\ bslice.open
    /\ Len(wrLog) < MaxOps
    /\ wr' = BinarySlice_drop(OpenSlice)
    /\ bslice' = NoSlice
    /\ wrLog' = Append(wrLog, WriterCall("slice_drop", 0, << >>))
    /\ UNCHANGED exceptWriter

InitWriter ==
    /\ wr \in {ResourceFile_new, CoffWriter_new("X86_64"), FileWriter_default}
    /\ wrLog = << >>
    /\ bslice = NoSlice

IdleWriter ==
    /\ wr = ResourceFile_new
    /\ wrLog = << >>
    /\ bslice = NoSlice

NextWriter ==
    \/ \E bytes \in WriterBytes \ {<< >>} : WriterWriteBytes(bytes)
    \/ \E amount \in {2} : WriterReserve(amount)
    \/ \E index \in WriterOffsets(wr), bytes \in WriterBytes : WriterWriteBytesAt(index, bytes)
    \/ \E p \in {0, 3} : WriterSetPos(p)
    \/ \E k \in AlignArgs : WriterAlignTo(k)
    \/ WriterRealign
    \/ \E win \in SliceWindows : WriterSlice(win[1], win[2])
    \/ \E bytes \in WriterBytes : SliceWriteBytes(bytes)
    \/ SliceDrop

(***************************************************************************)
(* The legacy CoffWriter as a state machine: a caller builds directories   *)
(* and data entries, writes each entry's payload, then the relocations,    *)
(* and calls finish.                                                       *)
(***************************************************************************)
LegacyIds == {1, 2}

LegacyEntryCounts == {1, 2}

LegacyPayloads == {BytesPayload(Bytes(n)) : n \in {0, 3, 8}}

\* No handle would fail its Drop assertion.
LegacyComplete ==
    /\ \A d \in 1..Len(ldirs) : ldirs[d].current_index = ldirs[d].final_index
    /\ \A e \in 1..Len(lentries) : lentries[e].written

LegacyRunning == ~lcw.panic /\ ~lfile.done

\* The tree is under construction: no relocation has been written yet.
LegacyBuilding == LegacyRunning /\ lcw.relocations = 0

LegacyWriteDirectory(entries) ==
    /\ LegacyBuilding
    /\ Len(ldirs) < MaxLegacyEntries
    /\ \E a \in {CoffDirectoryWriter_allocate(lcw, entries)} :
          /\ lcw' = a.cw
          /\ ldirs' = Append(ldirs, a.dir)
    /\ UNCHANGED <<lentries, lfile, llog, exceptLegacy>>

LegacySubdirectory(d, id, entries) ==
    /\ LegacyBuilding
    /\ Len(ldirs) < MaxLegacyEntries
    /\ \E r \in {CoffDirectoryWriter_subdirectory(ldirs[d], lcw, id, entries)} :
          /\ lcw' = r.cw
          /\ ldirs' = Append([ldirs EXCEPT ![d] = r.parent], r.child.dir)
    /\ UNCHANGED <<lentries, lfile, llog, exceptLegacy>>

LegacyDataEntry(d, id) ==
    /\ LegacyBuilding
    /\ Len(lentries) < MaxLegacyEntries
    /\ \E r \in {CoffDirectoryWriter_data_entry(ldirs[d], lcw, id)} :
          /\ lcw' = r.cw
          /\ ldirs' = [ldirs EXCEPT ![d] = r.parent]
          /\ lentries' = Append(lentries, r.child.entry)
    /\ UNCHANGED <<lfile, llog, exceptLegacy>>

LegacyWriteData(e, data) ==
    /\ LegacyBuilding
    /\ ~lentries[e].written
    /\ \E r \in {CoffDataEntry_write_data(lentries[e], lcw, data)} :
          /\ lcw' = r.cw
          /\ lentries' = [lentries EXCEPT ![e] = r.entry]
    /\ UNCHANGED <<ldirs, lfile, llog, exceptLegacy>>

LegacyWriteRelocation(e) ==
    /\ LegacyRunning
    /\ LegacyComplete
    /\ lcw.relocations < MaxLegacyEntries
    /\ lcw' = CoffDataEntry_write_relocation(lentries[e], lcw)
    /\ UNCHANGED <<ldirs, lentries, lfile, llog, exceptLegacy>>

LegacyFinish(timestamp) ==
    /\ LegacyRunning
    /\ LegacyComplete
    /\ \E w \in {CoffWriter_finish(lcw, timestamp)} :
          /\ lcw' = w
          /\ lfile' = [done |-> TRUE, data |-> w.data]
    /\ UNCHANGED <<ldirs, lentries, llog, exceptLegacy>>

InitLegacy ==
    /\ lcw \in {CoffWriter_new(t) : t \in TargetTypes}
    /\ ldirs = << >>
    /\ lentries = << >>
    /\ lfile = [done |-> FALSE, data |-> << >>]
    /\ llog = << >>

IdleLegacy ==
    /\ lcw = CoffWriter_new("X86_64")
    /\ ldirs = << >>
    /\ lentries = << >>
    /\ lfile = [done |-> FALSE, data |-> << >>]
    /\ llog = << >>

NextLegacy ==
    \/ \E entries \in LegacyEntryCounts : LegacyWriteDirectory(entries)
    \/ \E d \in 1..Len(ldirs), id \in LegacyIds, entries \in LegacyEntryCounts :
          LegacySubdirectory(d, id, entries)
    \/ \E d \in 1..Len(ldirs), id \in LegacyIds : LegacyDataEntry(d, id)
    \/ \E e \in 1..Len(lentries), data \in LegacyPayloads : LegacyWriteData(e, data)
    \/ \E e \in 1..Len(lentries) : LegacyWriteRelocation(e)
    \/ \E timestamp \in Timestamps : LegacyFinish(timestamp)

(***************************************************************************)
(* The handles of the legacy writer with their Drop: a caller allocates    *)
(* the root directory, calls subdirectory, data_entry and write_data on    *)
(* the handles it holds and drops them, in any order.  llog records each   *)
(* call with the writer it found.                                          *)
(***************************************************************************)
MaxHandleOps == 4

HandleEntryCounts == {0, 1, 2}

HandleIds == {7}

HandlePayloads == {BytesPayload(Bytes(3))}

\* Handle `handle` of the kind `drop` ends was not dropped.
Live(drop, handle) ==
    \A n \in 1..Len(llog) : ~(llog[n].op = drop /\ llog[n].handle = handle)

HandlesFree == ~lcw.panic /\ Len(llog) < MaxHandleOps

\* A call on `handle` that allocates the handle `child` for `entries`
\* entries, made when the writer held the bytes lcw.data.
HandleCall(op, handle, id, entries, child) ==
    [op |-> op, handle |-> handle, id |-> id, entries |-> entries, child |-> child,
     before |-> lcw.data]

\* cw.write_directory(entries): the root directory.
HandlesWriteDirectory(entries) ==
    /\ HandlesFree
    /\ ldirs = << >>
    /\ \E a \in {CoffDirectoryWriter_allocate(lcw, entries)} :
          /\ lcw' = a.cw
          /\ ldirs' = Append(ldirs, a.dir)
    /\ llog' = Append(llog, HandleCall("write_directory", 0, 0, entries, Len(ldirs) + 1))
    /\ UNCHANGED <<lentries, lfile, exceptLegacy>>

HandlesSubdirectory(d, id, entries) ==
    /\ HandlesFree
    /\ Live("drop_directory", d)
    /\ \E r \in {CoffDirectoryWriter_subdirectory(ldirs[d], lcw, id, entries)} :
          /\ lcw' = r.cw
          /\ ldirs' = Append([ldirs EXCEPT ![d] = r.parent], r.child.dir)
    /\ llog' = Append(llog, HandleCall("subdirectory", d, id, entries, Len(ldirs) + 1))
    /\ UNCHANGED <<lentries, lfile, exceptLegacy>>

HandlesDataEntry(d, id) ==
    /\ HandlesFree
    /\ Live("drop_directory", d)
    /\ \E r \in {CoffDirectoryWriter_data_entry(ldirs[d], lcw, id)} :
          /\ lcw' = r.cw
          /\ ldirs' = [ldirs EXCEPT ![d] = r.parent]
          /\ lentries' = Append(lentries, r.child.entry)
    /\ llog' = Append(llog, HandleCall("data_entry", d, id, 0, Len(lentries) + 1))
    /\ UNCHANGED <<lfile, exceptLegacy>>

HandlesWriteData(e, data) ==
    /\ HandlesFree
    /\ Live("drop_entry", e)
    /\ \E r \in {CoffDataEntry_write_data(lentries[e], lcw, data)} :
          /\ lcw' = r.cw
          /\ lentries' = [lentries EXCEPT ![e] = r.entry]
    /\ llog' = Append(llog, HandleCall("write_data", e, 0, 0, 0))
    /\ UNCHANGED <<ldirs, lfile, exceptLegacy>>

\* impl Drop for CoffDirectoryWriter
CoffDirectoryWriter_drop(dir, cw) ==
    IF dir.current_index = dir.final_index THEN cw
    ELSE Panic(cw)                             \* Not all entries were written

\* impl Drop for CoffDataEntry
CoffDataEntry_drop(entry, cw) ==
    IF entry.written THEN cw
    ELSE Panic(cw)                             \* A data entry was never written

HandlesDropDirectory(d) ==
    /\ HandlesFree
    /\ Live("drop_directory", d)
    /\ lcw' = CoffDirectoryWriter_drop(ldirs[d], lcw)
    /\ llog' = Append(llog, HandleCall("drop_directory", d, 0, 0, 0))
    /\ UNCHANGED <<ldirs, lentries, lfile, exceptLegacy>>

HandlesDropEntry(e) ==
    /\ HandlesFree
    /\ Live("drop_entry", e)
    /\ lcw' = CoffDataEntry_drop(lentries[e], lcw)
    /\ llog' = Append(llog, HandleCall("drop_entry", e, 0, 0, 0))
    /\ UNCHANGED <<ldirs, lentries, lfile, exceptLegacy>>

NextHandles ==
    \/ \E entries \in HandleEntryCounts : HandlesWriteDirectory(entries)
    \/ \E d \in 1..Len(ldirs), id \in HandleIds, entries \in HandleEntryCounts :
          HandlesSubdirectory(d, id, entries)
    \/ \E d \in 1..Len(ldirs), id \in HandleIds : HandlesDataEntry(d, id)
    \/ \E e \in 1..Len(lentries), data \in HandlePayloads : HandlesWriteData(e, data)
    \/ \E d \in 1..Len(ldirs) : HandlesDropDirectory(d)
    \/ \E e \in 1..Len(lentries) : HandlesDropEntry(e)

InitSpecHandles == IdleLegacy /\ IdleRes /\ IdleCoff /\ IdleBuilder /\ IdleWriter

SpecHandles == InitSpecHandles /\ [][NextHandles]_vars

\* Versions with distinct components, one of them above 255.
Versions == {<<1, 2, 3, 4>>, <<258, 772, 1286, 1800>>}

FileTypes == {"Exe", "Dll"}

\* "B" and "AB" as keys, "x" and "yz" as values.
StringKeys == {<<66>>, <<65, 66>>}

StringValues == {<<120>>, <<121, 122>>}

\* The builder's version setters followed by one compile_to_* call.
NextVersion ==
    \/ \E version \in Versions : BuilderSetFileVersion(version)
    \/ \E version \in {<<5, 6, 7, 8>>} : BuilderSetProductVersion(version)
    \/ \E file_type \in FileTypes : BuilderSetFileType(file_type)
    \/ \E key \in StringKeys, value \in StringValues : BuilderAddString(key, value)
    \/ BuilderCompileToRes
    \/ \E target \in {"X86_64"}, timestamp \in {0} : BuilderCompileToCoff(target, timestamp)

InitSpecVersion == InitBuilder /\ IdleRes /\ IdleCoff /\ IdleWriter /\ IdleLegacy

SpecVersion == InitSpecVersion /\ [][NextVersion]_vars

(***************************************************************************)
(* add_icon on a builder that holds many icons: the builder after          *)
(* BulkIcons add_icon calls with the ids BulkIdBase + 1, BulkIdBase + 2,   *)
(* ..., and the calls that follow.                                         *)
(***************************************************************************)
MaxBulkAdds == 3

\* The number of icons whose internal ids end at 65534.
BulkIcons == U16_LIMIT - ICON_BASE_ID - 1

BulkIdBase == 100

BulkBuilder ==
    [ResourceBuilder_default EXCEPT
       !.icons = [n \in 1..BulkIcons |-> <<ICON_BASE_ID + n - 1, Png(0)>>],
       !.icon_groups = [n \in 1..BulkIcons |->
                          <<BulkIdBase + n,
                            <<[icon_id |-> ICON_BASE_ID + n - 1, icon_size |-> Len(Png(0))]>>>>]]

BulkIds == {1, 2, 3}

BulkAddIcon(id, icon) ==
    /\ ~rb.panic
    /\ Len(rb.icons) < BulkIcons + MaxBulkAdds
    /\ Icon_is_valid_png(icon)
    /\ rb' \in ResourceBuilder_add_icon_profiles(rb, id, icon)
    /\ UNCHANGED out
    /\ UNCHANGED exceptBuilder

InitIcons ==
    /\ rb \in {ResourceBuilder_default, BulkBuilder}
    /\ out = NoFile

NextIcons == \E id \in BulkIds, icon \in Icons : BulkAddIcon(id, icon)

InitSpecIcons == InitIcons /\ IdleRes /\ IdleCoff /\ IdleWriter /\ IdleLegacy

SpecIcons == InitSpecIcons /\ [][NextIcons]_vars

(***************************************************************************)
(* The stores into 16-bit length and count fields, applied to lengths and  *)
(* counts on both sides of 65535: write_field of a version record whose    *)
(* value is `length` bytes, and the section headers finish writes for a    *)
(* table of `count` resources.                                             *)
(***************************************************************************)
MaxFieldOps == 2

FieldLengths == {0, 52, 65520, 65528, 65536}

FieldKeys == {<<65>>, <<65, 66, 67>>}

FieldCounts == {1, 2, 65535, 65536, 65537}

\* What write_sections returns for `count` resources of one type with the
\* ids 1..count and empty payloads: the root node and the type node, `count`
\* language nodes of one entry and `count` data entries, then one
\* relocation of 10 bytes each, padded to 4, and an empty payload section.
SectionsOf(count) ==
    <<Section(Name_rsrc01, FILE_HEADER_SIZE + 2 * SECTION_HEADER_SIZE,
              40 + 48 * count,
              FILE_HEADER_SIZE + 2 * SECTION_HEADER_SIZE + 40 + 48 * count,
              count),
      Section(Name_rsrc02,
              FILE_HEADER_SIZE + 2 * SECTION_HEADER_SIZE + 40 + 48 * count
                + ((10 * count + 3) \div 4) * 4,
              0, 0, 0)>>

FieldsFree == ~wr.panic /\ Len(wrLog) < MaxFieldOps

\* w.write_field(FieldType::Binary, key, FieldValue::header(|w| <length bytes>), |_| {})
FieldsWriteField(key, length) ==
    /\ FieldsFree
    /\ wr' = VersionWriter_write_field(
                wr, Field("Binary", key, FieldValue_header(Zeros(length)), Body_empty))
    /\ wrLog' = Append(wrLog, [op |-> "write_field", key |-> key, n |-> length,
                               at |-> pos(align_to(wr, 4))])
    /\ UNCHANGED bslice
    /\ UNCHANGED exceptWriter

\* The section-header loop of finish, for the sections of `count` resources.
FieldsSectionHeaders(count) ==
    /\ FieldsFree
    /\ wr.kind = "FileWriter"
    /\ wr' = WriteSectionHeaders(wr, SectionsOf(count))
    /\ wrLog' = Append(wrLog, [op |-> "section_headers", key |-> << >>, n |-> count,
                               at |-> pos(wr)])
    /\ UNCHANGED bslice
    /\ UNCHANGED exceptWriter

InitFields ==
    /\ wr \in {ResourceFile_new, FileWriter_default}
    /\ wrLog = << >>
    /\ bslice = NoSlice

NextFields ==
    \/ \E key \in FieldKeys, length \in FieldLengths : FieldsWriteField(key, length)
    \/ \E count \in FieldCounts : FieldsSectionHeaders(count)

InitSpecFields == InitFields /\ IdleRes /\ IdleCoff /\ IdleBuilder /\ IdleLegacy

SpecFields == InitSpecFields /\ [][NextFields]_vars

InitSpecRes == InitRes /\ IdleCoff /\ IdleBuilder /\ IdleWriter /\ IdleLegacy

InitSpecCoff == InitCoff /\ IdleRes /\ IdleBuilder /\ IdleWriter /\ IdleLegacy

InitSpecBuilder == InitBuilder /\ IdleRes /\ IdleCoff /\ IdleWriter /\ IdleLegacy

InitSpecWriter == InitWriter /\ IdleRes /\ IdleCoff /\ IdleBuilder /\ IdleLegacy

InitSpecLegacy == InitLegacy /\ IdleRes /\ IdleCoff /\ IdleBuilder /\ IdleWriter

SpecRes == InitSpecRes /\ [][NextRes]_vars

SpecCoff == InitSpecCoff /\ [][NextCoff]_vars

SpecBuilder == InitSpecBuilder /\ [][NextBuilder]_vars

SpecWriter == InitSpecWriter /\ [][NextWriter]_vars

SpecLegacy == InitSpecLegacy /\ [][NextLegacy]_vars

(***************************************************************************)
(* Claims about the .res emitter.                                          *)
(***************************************************************************)
ResRecordEnd(i) ==
    IF i < Len(resLog) THEN resLog[i + 1].start ELSE Len(resw.data)

ResPad(n) == (4 - (n % 4)) % 4

\* C1: every .res record spans header_size + data_size + p bytes, where the
\* two sizes are the back-patched u32 fields at record offsets 4 and 0,
\* data_size is the number of bytes the payload serializer appended and
\* p = (4 - data_size mod 4) mod 4.
C1_RecordLength ==
    \A i \in 1..Len(resLog) :
        LET start == resLog[i].start
            data_size == read_u32(resw.data, start)
            header_size == read_u32(resw.data, start + 4)
        IN  /\ data_size = resLog[i].appended
            /\ ResRecordEnd(i) - start = header_size + data_size + ResPad(data_size)

\* A buffer of two records whose first has a payload that needs padding.
C1_Witness ==
    /\ Len(resLog) = 2
    /\ resLog[1].appended % 4 = 3
    /\ resLog[2].appended > 0

\* C2: every .res record starts at a multiple of 4 and the buffer's length
\* is a multiple of 4.
C2_RecordAlignment ==
    /\ \A i \in 1..Len(resLog) : resLog[i].start % 4 = 0
    /\ Len(resw.data) % 4 = 0

\* The sentinel followed by the version record, as the empty build emits.
C2_Witness ==
    /\ Len(resLog) = 2
    /\ resLog[1].ty = "None" /\ resLog[1].appended = 0
    /\ resLog[2].ty = "Version" /\ resLog[2].appended > 52
    /\ resLog[2].start > 0

(***************************************************************************)
(* The emitted COFF as the reader (examples/reader.rs) decodes it.         *)
(***************************************************************************)
File_machine(F) == read_u16(F, 0)
File_number_of_sections(F) == read_u16(F, 2)
File_timestamp(F) == read_u32(F, 4)
File_symbol_table_pointer(F) == read_u32(F, 8)
File_number_of_symbols(F) == read_u32(F, 12)

\* Section header i (from 0).
SectionAt(F, i) ==
    LET at == FILE_HEADER_SIZE + i * SECTION_HEADER_SIZE
    IN  [name |-> IF InBuf(F, at, 8) THEN SubSeq(F, at + 1, at + 8) ELSE << >>,
         size_of_raw_data |-> read_u32(F, at + 16),
         pointer_to_raw_data |-> read_u32(F, at + 20),
         pointer_to_relocations |-> read_u32(F, at + 24),
         number_of_relocations |-> read_u16(F, at + 32)]

RELOCATION_SIZE == 10
SYMBOL_SIZE == 18

\* Relocation record j (from 0) of section i.
RelocationAt(F, i, j) ==
    LET at == SectionAt(F, i).pointer_to_relocations + j * RELOCATION_SIZE
    IN  [position |-> at,
         virtual_address |-> read_u32(F, at),
         symbol_index |-> read_u32(F, at + 4),
         type |-> read_u16(F, at + 8)]

RelocationIndices(F, i) == 0..(SectionAt(F, i).number_of_relocations - 1)

\* Symbol table record k (from 0), read as a primary record.
SymbolAt(F, k) ==
    LET at == File_symbol_table_pointer(F) + k * SYMBOL_SIZE
    IN  [position |-> at,
         name |-> IF InBuf(F, at, 8) THEN SubSeq(F, at + 1, at + 8) ELSE << >>,
         value |-> read_u32(F, at + 8),
         section_number |-> read_u16(F, at + 12),
         type |-> read_u16(F, at + 14),
         storage_class |-> IF InBuf(F, at + 16, 1) THEN F[at + 17] ELSE -1,
         number_of_aux |-> IF InBuf(F, at + 17, 1) THEN F[at + 18] ELSE -1]

\* The indices of the primary records from k on: a primary record is
\* followed by as many auxiliary records as it announces.
RECURSIVE PrimarySymbols(_, _)
PrimarySymbols(F, k) ==
    IF k < 0 \/ k >= File_number_of_symbols(F) \/ SymbolAt(F, k).number_of_aux < 0
    THEN {}
    ELSE {k} \cup PrimarySymbols(F, k + 1 + SymbolAt(F, k).number_of_aux)

\* A per-payload symbol: a primary record without auxiliary records, named
\* "$R....", defined in section 2.
IsResourceSymbol(F, k) ==
    /\ k \in PrimarySymbols(F, 0)
    /\ SymbolAt(F, k).number_of_aux = 0
    /\ SymbolAt(F, k).section_number = 2
    /\ SymbolAt(F, k).storage_class = IMAGE_SYM_CLASS_STATIC
    /\ SubSeq(SymbolAt(F, k).name, 1, 2) = <<36, 82>>

MaxDepth == 3

\* parse_res_table: the data entries the walk from the node at `offset`
\* reaches, each with the ids on its path.  The walk of a well-formed tree
\* ends at depth 3; deeper nodes are not followed.
RECURSIVE ParseResTable(_, _, _, _)
ParseResTable(F, table_base, offset, path) ==
    LET number_of_id_entries == read_u16(F, table_base + offset + 14)
        base == table_base + offset + 16
    IN  UNION {
          LET id == read_u32(F, base + i * 8)
              child == read_u32(F, base + i * 8 + 4)
              at == table_base + child
          IN  IF bit31(F, base + i * 8 + 4)
              THEN IF Len(path) + 1 >= MaxDepth THEN {}
                   ELSE ParseResTable(F, table_base, child, Append(path, id))
              ELSE {[path |-> Append(path, id),
                     slot |-> base + i * 8,
                     offset |-> child,
                     data_rva |-> read_u32(F, at),
                     size |-> read_u32(F, at + 4),
                     codepage |-> read_u32(F, at + 8),
                     reserved |-> read_u32(F, at + 12)]}
          : i \in 0..(number_of_id_entries - 1) }

\* The data entries of the table section of F.
DataEntries(F) == ParseResTable(F, SectionAt(F, 0).pointer_to_raw_data, 0, << >>)

\* finish returned a file.
CoffEmitted == coffDone /\ ~cw2.panic

(***************************************************************************)
(* Claims about the two-section COFF emitter.                              *)
(***************************************************************************)
\* C3: in the file finish returns, every relocation record has
\* symbol_index < number_of_symbols, the index names a per-payload Resource
\* symbol (not a section or auxiliary record), virtual_address is the
\* section-relative offset of the data_rva field of a data entry the
\* directory walk reaches, and virtual_address + 4 <= size_of_raw_data of
\* .rsrc$01.
C3_RelocationsWellFormed ==
    CoffEmitted =>
      /\ SectionAt(coffFile, 0).name = Name_rsrc01
      /\ \A j \in RelocationIndices(coffFile, 0) :
           LET r == RelocationAt(coffFile, 0, j)
           IN  /\ r.symbol_index < File_number_of_symbols(coffFile)
               /\ IsResourceSymbol(coffFile, r.symbol_index)
               /\ cw2.symbols[r.symbol_index + 1].tag = "Resource"
               /\ \E e \in DataEntries(coffFile) : e.offset = r.virtual_address
               /\ r.virtual_address + 4 <= SectionAt(coffFile, 0).size_of_raw_data

\* A file with two relocations, for two resources of different types.
C3_Witness ==
    /\ CoffEmitted
    /\ SectionAt(coffFile, 0).number_of_relocations = 2
    /\ RelocationAt(coffFile, 0, 0).symbol_index = 4
    /\ RelocationAt(coffFile, 0, 1).symbol_index = 5
    /\ Cardinality(DataEntries(coffFile)) = 2

\* C4: the relocation records appear in the file in ascending order of
\* symbol_index, whatever the order in which the resources were added.
C4_RelocationsAscending ==
    CoffEmitted =>
      \A j, k \in RelocationIndices(coffFile, 0) :
         j < k => RelocationAt(coffFile, 0, j).symbol_index
                    < RelocationAt(coffFile, 0, k).symbol_index

\* The walk collected the two relocations in the other order: the resource
\* added first lies later in the directory.
C4_Witness ==
    /\ CoffEmitted
    /\ Len(coffLog) = 2
    /\ ResourceType_id(coffLog[1].ty) > ResourceType_id(coffLog[2].ty)
    /\ SectionAt(coffFile, 0).number_of_relocations = 2
    /\ RelocationAt(coffFile, 0, 0).virtual_address
         > RelocationAt(coffFile, 0, 1).virtual_address

\* The (type, id) pairs passed to add_resource, and the last call for one.
CoffKeys == {<<ResourceType_id(coffLog[n].ty), coffLog[n].id>> : n \in 1..Len(coffLog)}

LastAdd(key) ==
    LET calls == {n \in 1..Len(coffLog) :
                    <<ResourceType_id(coffLog[n].ty), coffLog[n].id>> = key}
    IN  coffLog[CHOOSE n \in calls : \A m \in calls : m <= n]

\* C5: the directory walk of the emitted file reaches exactly one data entry
\* for every distinct (type, id) passed to add_resource, under language
\* 0x0409, with the size of that resource's payload (the payload of the last
\* call for a pair added twice), and no other data entry.
C5_DirectoryWalk ==
    CoffEmitted =>
      /\ \A key \in CoffKeys :
           LET reached == {e \in DataEntries(coffFile) :
                             /\ Len(e.path) >= 2
                             /\ e.path[1] = key[1] /\ e.path[2] = key[2]}
           IN  /\ Cardinality(reached) = 1
               /\ \A e \in reached : e.size = LastAdd(key).appended
      /\ \A e \in DataEntries(coffFile) :
           /\ Len(e.path) = 3
           /\ <<e.path[1], e.path[2]>> \in CoffKeys
           /\ e.path[3] = LANG_US

\* Two resources of one type under different ids, with different sizes.
C5_Witness ==
    /\ CoffEmitted
    /\ Len(coffLog) = 2
    /\ coffLog[1].ty = coffLog[2].ty
    /\ coffLog[1].id # coffLog[2].id
    /\ coffLog[1].appended = 3 /\ coffLog[2].appended = 8
    /\ Cardinality(DataEntries(coffFile)) = 2

\* C6: every data entry of the emitted file is data_rva = 0, size = payload
\* byte count, codepage = 0, reserved = 0.
C6_DataEntryLayout ==
    CoffEmitted =>
      \A e \in DataEntries(coffFile) :
         /\ e.data_rva = 0
         /\ Len(e.path) = 3
         /\ <<e.path[1], e.path[2]>> \in CoffKeys
         /\ e.size = LastAdd(<<e.path[1], e.path[2]>>).appended
         /\ e.codepage = 0
         /\ e.reserved = 0

\* C8 as stated: every relocation record lies at or after the end of the raw
\* data of both sections and below the symbol table, and the 4-byte string
\* table follows the symbol table.
C8_RelocationsAfterAllRawData ==
    CoffEmitted =>
      /\ \A j \in RelocationIndices(coffFile, 0), i \in {0, 1} :
           /\ RelocationAt(coffFile, 0, j).position
                >= SectionAt(coffFile, i).pointer_to_raw_data
                     + SectionAt(coffFile, i).size_of_raw_data
           /\ RelocationAt(coffFile, 0, j).position
                < File_symbol_table_pointer(coffFile)
      /\ Len(coffFile) = File_symbol_table_pointer(coffFile)
                           + SYMBOL_SIZE * File_number_of_symbols(coffFile) + 4

\* C8, amended: the relocation records lie between the raw data of .rsrc$01
\* and the raw data of .rsrc$02 (the payload bytes), the payload bytes end at
\* or before the symbol table, and the 4-byte string table follows the symbol
\* table and ends the file.
C8_FileLayout ==
    CoffEmitted =>
      /\ \A j \in RelocationIndices(coffFile, 0) :
           /\ RelocationAt(coffFile, 0, j).position
                >= SectionAt(coffFile, 0).pointer_to_raw_data
                     + SectionAt(coffFile, 0).size_of_raw_data
           /\ RelocationAt(coffFile, 0, j).position + RELOCATION_SIZE
                <= SectionAt(coffFile, 1).pointer_to_raw_data
      /\ SectionAt(coffFile, 1).pointer_to_raw_data
           + SectionAt(coffFile, 1).size_of_raw_data
             <= File_symbol_table_pointer(coffFile)
      /\ Len(coffFile) = File_symbol_table_pointer(coffFile)
                           + SYMBOL_SIZE * File_number_of_symbols(coffFile) + 4
      /\ SubSeq(coffFile, Len(coffFile) - 3, Len(coffFile)) = Zeros(4)

\* A file with relocation records and payload bytes.
C8_Witness ==
    /\ CoffEmitted
    /\ SectionAt(coffFile, 0).number_of_relocations = 2
    /\ SectionAt(coffFile, 1).size_of_raw_data = 16
    /\ SectionAt(coffFile, 1).pointer_to_raw_data
         > RelocationAt(coffFile, 0, 1).position

(***************************************************************************)
(* Claims about the builder.                                               *)
(***************************************************************************)
\* The root node of the resource directory of F: its entry count and ids.
RootEntryCount(F) == read_u16(F, SectionAt(F, 0).pointer_to_raw_data + 14)

RootTypeIds(F) ==
    {read_u32(F, SectionAt(F, 0).pointer_to_raw_data + 16 + i * RESOURCE_TABLE_ENTRY_SIZE) :
       i \in 0..(RootEntryCount(F) - 1)}

PayloadSymbols(F) ==
    {k \in 0..(File_number_of_symbols(F) - 1) : IsResourceSymbol(F, k)}

\* compile_to_coff(X86_64) returned, for a builder holding exactly one icon,
\* registered under id 1, and no manifest.
OneIconCoff ==
    /\ out.kind = "Coff"
    /\ out.target = "X86_64"
    /\ Len(out.of.icons) = 1
    /\ Len(out.of.icon_groups) = 1
    /\ out.of.icon_groups[1][1] = 1
    /\ out.of.manifest = << >>

\* C7 as stated: the file has machine 0x8664, exactly two type entries
\* (Icon = 3 and IconGroup = 14), two payload symbols and two relocations,
\* each of type 0x0003.
C7_TwoTypeEntries ==
    OneIconCoff =>
      /\ File_machine(out.data) = 34404
      /\ RootEntryCount(out.data) = 2
      /\ RootTypeIds(out.data) = {3, 14}
      /\ Cardinality(PayloadSymbols(out.data)) = 2
      /\ SectionAt(out.data, 0).number_of_relocations = 2
      /\ \A j \in RelocationIndices(out.data, 0) : RelocationAt(out.data, 0, j).type = 3

\* C7, amended: compile_to_coff adds the Version resource first, so the file
\* has machine 0x8664, exactly three type entries (Icon = 3, IconGroup = 14
\* and Version = 16), three payload symbols and three relocations, each of
\* type 0x0003.
C7_ThreeTypeEntries ==
    OneIconCoff =>
      /\ File_machine(out.data) = 34404
      /\ RootEntryCount(out.data) = 3
      /\ RootTypeIds(out.data) = {3, 14, 16}
      /\ Cardinality(PayloadSymbols(out.data)) = 3
      /\ SectionAt(out.data, 0).number_of_relocations = 3
      /\ \A j \in RelocationIndices(out.data, 0) : RelocationAt(out.data, 0, j).type = 3
      /\ Cardinality(DataEntries(out.data)) = 3

C7_Witness == OneIconCoff /\ Len(out.data) > 0 /\ Len(out.of.icons[1][2]) = 29

(***************************************************************************)
(* Claims about alignment inside the resource sections.                    *)
(***************************************************************************)
\* The nodes of the resource tree at table_base + offset, as a reader walks
\* it: every directory node, and every data entry a directory entry names.
RECURSIVE ResNodes(_, _, _, _)
ResNodes(F, table_base, offset, fuel) ==
    LET count == read_u16(F, table_base + offset + 14)   \* number_of_id_entries
        base == table_base + offset + 16
    IN  {[dir |-> TRUE, offset |-> offset]} \cup
        UNION {
          IF bit31(F, base + i * 8 + 4)
          THEN IF fuel > 0
               THEN ResNodes(F, table_base, read_u32(F, base + i * 8 + 4), fuel - 1)
               ELSE {}
          ELSE {[dir |-> FALSE, offset |-> read_u32(F, base + i * 8 + 4)]}
          : i \in 0..(count - 1) }

\* finish of the legacy writer returned a file.
LegacyEmitted == lfile.done /\ ~lcw.panic

\* The file offset where the raw data of the only section starts.
LegacyRawData == SectionAt(lfile.data, 0).pointer_to_raw_data

\* C9: in the COFF the legacy writer emits, every directory node and every
\* data entry starts at a multiple of 4 relative to pointer_to_raw_data of
\* the section, and every payload (the OffsetToData of its data entry)
\* starts at a multiple of 8 relative to pointer_to_raw_data.
C9_LegacyAlignment ==
    (LegacyEmitted /\ ldirs # << >>) =>
       \A n \in ResNodes(lfile.data, LegacyRawData, 0, MaxLegacyEntries) :
          /\ n.offset % 4 = 0
          /\ ~n.dir => read_u32(lfile.data, LegacyRawData + n.offset) % 8 = 0

\* The same alignment in the file the two-section writer emits: nodes of
\* .rsrc$01 at multiples of 4, payload symbols of .rsrc$02 at multiples of 8.
Coff2Alignment ==
    CoffEmitted =>
       /\ \A n \in ResNodes(coffFile, SectionAt(coffFile, 0).pointer_to_raw_data, 0, MaxDepth) :
             n.offset % 4 = 0
       /\ \A k \in 0..(File_number_of_symbols(coffFile) - 1) :
             IsResourceSymbol(coffFile, k) => SymbolAt(coffFile, k).value % 8 = 0

(***************************************************************************)
(* Claims about the writers.                                               *)
(***************************************************************************)
\* The writer as call n of wrLog left it.
WriterAfter(n) == IF n = Len(wrLog) THEN wr ELSE wrLog[n + 1].before

WriteBytesAtCalls == {n \in 1..Len(wrLog) : wrLog[n].op = "write_bytes_at"}

\* The region of the call reaches past the position the writer had.
PastPos(n) == wrLog[n].index + Len(wrLog[n].bytes) > pos(wrLog[n].before)

\* C10 as stated: for each of the three writers, write_bytes_at leaves pos()
\* unchanged, and fails without modifying the buffer when
\* offset + len(bytes) > pos().
C10_FailsPastPos ==
    \A n \in WriteBytesAtCalls :
       /\ pos(WriterAfter(n)) = pos(wrLog[n].before)
       /\ PastPos(n) =>
            /\ WriterAfter(n).panic
            /\ WriterAfter(n).data = wrLog[n].before.data

\* C10, amended: write_bytes_at leaves pos() unchanged on each of the three
\* writers.  On the ResourceFile and on the legacy CoffWriter it fails without
\* modifying the buffer when offset + len(bytes) > pos(), and succeeds
\* otherwise.  On the coff2 FileWriter it never fails: a region past the end
\* of the buffer makes the buffer grow, zero filled, to offset + len(bytes),
\* and the bytes are written there, past pos() or not.
C10_WriteBytesAt ==
    \A n \in WriteBytesAtCalls :
       LET b == wrLog[n].before
           a == WriterAfter(n)
           index == wrLog[n].index
           bytes == wrLog[n].bytes
       IN  /\ pos(a) = pos(b)
           /\ b.kind \in {"ResourceFile", "CoffWriter"} =>
                /\ a.panic = PastPos(n)
                /\ PastPos(n) => a.data = b.data
                /\ ~PastPos(n) =>
                     /\ Len(a.data) = Len(b.data)
                     /\ SubSeq(a.data, index + 1, index + Len(bytes)) = bytes
           /\ b.kind = "FileWriter" =>
                /\ ~a.panic
                /\ Len(a.data) = IF index + Len(bytes) > Len(b.data)
                                 THEN index + Len(bytes) ELSE Len(b.data)
                /\ SubSeq(a.data, index + 1, index + Len(bytes)) = bytes
                /\ \A k \in 1..Len(a.data) :
                      (k <= index \/ k > index + Len(bytes)) =>
                         a.data[k] = IF k <= Len(b.data) THEN b.data[k] ELSE 0

\* A legacy CoffWriter refused a region that reaches past its position, and
\* (in another behaviour) a FileWriter wrote one.
C10_Witness ==
    /\ wrLog # << >>
    /\ wrLog[Len(wrLog)].op = "write_bytes_at"
    /\ PastPos(Len(wrLog))
    /\ wrLog[Len(wrLog)].bytes = <<7, 8>>
    /\ wr.kind = "CoffWriter"
    /\ wr.panic
    /\ Len(wr.data) = CoffWriter_HEADER_SIZE + 2

\* realign is logged with k = 4.
AlignToCalls == {n \in 1..Len(wrLog) : wrLog[n].op \in {"align_to", "realign"}}

\* The least multiple of k that is >= p.
LeastMultipleFrom(p, k) == CHOOSE m \in p..(p + k - 1) : m % k = 0

\* C11: on every writer align_to(k), k >= 1, reserves exactly
\* (k - (pos mod k)) mod k bytes: afterwards pos is the least multiple of k
\* that is >= the previous pos, so a call at a multiple of k adds nothing.
C11_AlignTo ==
    \A n \in AlignToCalls :
       LET k == wrLog[n].index
           before == pos(wrLog[n].before)
           after == pos(WriterAfter(n))
       IN  /\ after - before = (k - (before % k)) % k
           /\ after = LeastMultipleFrom(before, k)
           /\ before % k = 0 => after = before

ReserveCalls == {n \in 1..Len(wrLog) : wrLog[n].op = "reserve"}

\* C12 as stated: on each of the three writers reserve(n) advances pos by n
\* and right after the call the buffer holds the bytes [old pos, old pos + n),
\* all of them zero, whatever preceded the call.
C12_ReserveAppendsZeros ==
    \A n \in ReserveCalls :
       LET b == wrLog[n].before
           a == WriterAfter(n)
           amount == wrLog[n].index
       IN  /\ pos(a) = pos(b) + amount
           /\ Len(a.data) >= pos(b) + amount
           /\ \A k \in (pos(b) + 1)..(pos(b) + amount) :
                 k <= Len(a.data) => a.data[k] = 0

\* C12, amended: reserve(n) advances pos by exactly n on each of the three
\* writers.  The ResourceFile and the legacy CoffWriter append n zero bytes
\* to the buffer.  The coff2 FileWriter leaves its buffer as it is: bytes of
\* [old pos, old pos + n) that the buffer already holds keep their values,
\* and the others are not in the buffer after the call.
C12_Reserve ==
    \A n \in ReserveCalls :
       LET b == wrLog[n].before
           a == WriterAfter(n)
           amount == wrLog[n].index
       IN  /\ pos(a) = pos(b) + amount
           /\ ~a.panic
           /\ b.kind \in {"ResourceFile", "CoffWriter"} =>
                 a.data = b.data \o Zeros(amount)
           /\ b.kind = "FileWriter" => a.data = b.data

\* A FileWriter reserved over bytes written before set_pos moved it back.
C12_Witness ==
    /\ wrLog # << >>
    /\ wrLog[Len(wrLog)].op = "reserve"
    /\ wr.kind = "FileWriter"
    /\ wrLog[Len(wrLog)].before.current_position = 0
    /\ wr.current_position = 2
    /\ wr.data = <<7, 8>>

(***************************************************************************)
(* Claims about the scoped slice.                                          *)
(***************************************************************************)
\* The slice as call n of wrLog left it.
SliceAfter(n) == IF n = Len(wrLog) THEN bslice ELSE wrLog[n + 1].slice

SliceCalls(op) == {n \in 1..Len(wrLog) : wrLog[n].op = op}

\* C13: a slice created by slice(offset, length) starts with window-relative
\* pos 0; a write that would take pos past length is fatal and none of its
\* bytes reaches the parent, a write that fits lands at offset + pos of the
\* parent and advances pos; leaving the scope is fatal when pos # length and
\* normal when pos = length.
C13_ScopedSlice ==
    /\ \A n \in SliceCalls("slice") :
          /\ SliceAfter(n).open
          /\ SliceAfter(n).pos = 0
          /\ WriterAfter(n) = wrLog[n].before
    /\ \A n \in SliceCalls("slice_write") :
          LET sl == wrLog[n].slice
              b == wrLog[n].before
              a == WriterAfter(n)
              bytes == wrLog[n].bytes
              at == sl.start + sl.pos
          IN  /\ sl.pos + Len(bytes) > sl.length =>
                   a.panic /\ a.data = b.data
              /\ (sl.pos + Len(bytes) <= sl.length /\ ~a.panic) =>
                   /\ SliceAfter(n).pos = sl.pos + Len(bytes)
                   /\ SubSeq(a.data, at + 1, at + Len(bytes)) = bytes
                   /\ pos(a) = pos(b)
    /\ \A n \in SliceCalls("slice_drop") :
          /\ WriterAfter(n).panic = (wrLog[n].slice.pos # wrLog[n].slice.length)
          /\ WriterAfter(n).data = wrLog[n].before.data

\* A slice of two bytes took one byte and then refused two more; in another
\* behaviour a slice was filled and left normally.
C13_Witness ==
    /\ Len(wrLog) = 3
    /\ wrLog[1].op = "slice"
    /\ wrLog[2].op = "slice_write"
    /\ wrLog[2].bytes = <<7>>
    /\ wrLog[3].op = "slice_write"
    /\ wrLog[3].bytes = <<7, 8>>
    /\ wrLog[3].slice.length = 2
    /\ wr.kind = "CoffWriter"
    /\ wr.panic
    /\ wr.data[1] = 7

(***************************************************************************)
(* Reading the emitted files back: the records of a .res stream, the       *)
(* payload of a resource of a COFF file, and the record tree of a version  *)
(* payload.                                                                *)
(***************************************************************************)
\* The .res record starting at offset s of F.
ResRecordAt(F, s) ==
    [start |-> s,
     data_size |-> read_u32(F, s),
     header_size |-> read_u32(F, s + 4),
     type |-> read_u16(F, s + 10),
     name |-> read_u16(F, s + 14),
     language |-> read_u16(F, s + 22),
     data_start |-> s + read_u32(F, s + 4),
     next |-> s + read_u32(F, s + 4) + read_u32(F, s) + ResPad(read_u32(F, s))]

\* The records of F from offset s on, in file order.
RECURSIVE ResRecords(_, _)
ResRecords(F, s) ==
    IF s >= Len(F) \/ ResRecordAt(F, s).next <= s THEN << >>
    ELSE <<ResRecordAt(F, s)>> \o ResRecords(F, ResRecordAt(F, s).next)

RecordData(F, r) == SubSeq(F, r.data_start + 1, r.data_start + r.data_size)

\* The payload bytes of the data entry e of the COFF file F: the bytes of
\* .rsrc$02 from the value of the symbol its relocation names.
CoffEntryData(F, e) ==
    LET j == CHOOSE j \in RelocationIndices(F, 0) :
                 RelocationAt(F, 0, j).virtual_address = e.offset
        at == SectionAt(F, 1).pointer_to_raw_data
              + SymbolAt(F, RelocationAt(F, 0, j).symbol_index).value
    IN  SubSeq(F, at + 1, at + e.size)

\* The version payload of the file compile_to_* returned.
VersionData ==
    IF out.kind = "Res"
    THEN LET rs == ResRecords(out.data, 0)
             n == CHOOSE n \in 1..Len(rs) : rs[n].type = ResourceType_id("Version")
         IN  RecordData(out.data, rs[n])
    ELSE LET e == CHOOSE e \in DataEntries(out.data) :
                     e.path[1] = ResourceType_id("Version")
         IN  CoffEntryData(out.data, e)

Align4(n) == n + ((4 - (n % 4)) % 4)

\* The offset of the terminator of the UTF-16 text that starts at `at`.
RECURSIVE Utf16End(_, _)
Utf16End(P, at) == IF read_u16(P, at) <= 0 THEN at ELSE Utf16End(P, at + 2)

\* The UTF-16 code units of P in [from, to).
RECURSIVE Utf16Units(_, _, _)
Utf16Units(P, from, to) ==
    IF from >= to THEN << >>
    ELSE <<read_u16(P, from)>> \o Utf16Units(P, from + 2, to)

\* The record of a version payload P that starts at offset s, as a reader of
\* VS_VERSIONINFO takes it apart: header, key, padding, value, padding,
\* children up to s + wLength.
VsRecordAt(P, s) ==
    LET wLength == read_u16(P, s)
        wValueLength == read_u16(P, s + 2)
        wType == read_u16(P, s + 4)
        key_end == Utf16End(P, s + 6)
        value_start == Align4(key_end + 2)
        value_size == IF wType = 1 THEN 2 * wValueLength ELSE wValueLength
    IN  [start |-> s, wLength |-> wLength, wValueLength |-> wValueLength,
         wType |-> wType,
         key |-> Utf16Units(P, s + 6, key_end),
         key_end |-> key_end + 2,
         value_start |-> value_start,
         value_end |-> value_start + value_size,
         children_start |-> Align4(value_start + value_size),
         end |-> s + wLength]

\* The starts of the records that tile [at, end).
RECURSIVE VsChildStarts(_, _, _)
VsChildStarts(P, at, end) ==
    IF at >= end \/ read_u16(P, at) <= 0 THEN << >>
    ELSE <<at>> \o VsChildStarts(P, Align4(at + read_u16(P, at)), end)

VsChildren(P, r) ==
    LET starts == VsChildStarts(P, r.children_start, r.end)
    IN  [k \in 1..Len(starts) |-> VsRecordAt(P, starts[k])]

\* Every record of the tree under r, r included, each with its parent.
RECURSIVE VsTree(_, _, _)
VsTree(P, r, parent) ==
    {[record |-> r, parent |-> parent]} \cup
    UNION {VsTree(P, VsChildren(P, r)[k], <<r>>) : k \in 1..Len(VsChildren(P, r))}

\* compile_to_* returned a file.
Compiled == out.kind # "None"

VsRoot == VsRecordAt(VersionData, 0)

\* The child of r with the given key (r has one).
VsChild(P, r, key) ==
    LET cs == VsChildren(P, r)
    IN  cs[CHOOSE k \in 1..Len(cs) : cs[k].key = key]

\* The String records of the StringTable, in file order.
VsStrings ==
    VsChildren(VersionData,
               VsChild(VersionData, VsChild(VersionData, VsRoot, Key_StringFileInfo),
                       Key_000004b0))

(***************************************************************************)
(* Claims about the version payload.                                       *)
(***************************************************************************)
\* The builder the compiled file was made of, and its version words.
Built == out.of.version

Major(v) == v[1]
Minor(v) == v[2]
Patch(v) == v[3]
BuildNo(v) == v[4]

\* A little-endian u16 as a reader expects it.
Le16(v) == <<v % 256, v \div 256>>

\* minor, major, build, patch of a version, each a little-endian u16.
SwappedWords(v) == Le16(Minor(v)) \o Le16(Major(v)) \o Le16(BuildNo(v)) \o Le16(Patch(v))

\* The value of the root record, and its u32 field at offset k.
FixedValue == SubSeq(VersionData, VsRoot.value_start + 1, VsRoot.value_end)

FixedField(k) == read_u32(FixedValue, k)

\* C14: the VS_FIXEDFILEINFO value of the emitted version record is 52 bytes:
\* magic 0xFEEF04BD, struct version 0x00010000, the words minor, major,
\* build, patch of the file version and of the product version, fileflagsmask
\* 0x3F, the flags, fileos 0x00040004, a filetype, subtype 0 and two zero
\* timestamps; wValueLength of the root record is 52.
C14_FixedFileInfo ==
    Compiled =>
      /\ VsRoot.wValueLength = 52
      /\ Len(FixedValue) = 52
      /\ SubSeq(FixedValue, 1, 4) = <<189, 4, 239, 254>>
      /\ FixedField(4) = 65536
      /\ SubSeq(FixedValue, 9, 16) = SwappedWords(Built.file_version)
      /\ SubSeq(FixedValue, 17, 24) = SwappedWords(Built.product_version)
      /\ FixedField(24) = 63
      /\ FixedField(28) = Built.file_flags
      /\ FixedField(32) = 262148
      /\ FixedField(36) \in {1, 2}
      /\ SubSeq(FixedValue, 41, 52) = Zeros(12)

\* A file compiled after both versions were set, the file version to words
\* above 255.
C14_Witness ==
    /\ out.kind = "Res"
    /\ Built.file_version = <<258, 772, 1286, 1800>>
    /\ Built.product_version = <<5, 6, 7, 8>>
    /\ SubSeq(FixedValue, 9, 12) = <<4, 3, 2, 1>>

\* C15: the filetype field of the emitted VS_FIXEDFILEINFO is 1 when the
\* file_type of the VersionInfo is Exe and 2 when it is Dll.
C15_FileType ==
    Compiled => FixedField(36) = (IF Built.file_type = "Exe" THEN 1 ELSE 2)

\* The text value of a String record: its code units before the terminator.
VsText(P, r) == Utf16Units(P, r.value_start, r.value_end - 2)

\* C16: the StringTable of the emitted version record holds exactly one
\* String entry per pair of the strings map, in the map's key order, each
\* with the key and the value of its pair; none for an empty map.
C16_StringTable ==
    Compiled =>
      /\ Len(VsStrings) = Len(Built.strings)
      /\ \A k \in 1..Len(VsStrings) :
            k <= Len(Built.strings) =>
               /\ VsStrings[k].key = Built.strings[k][1]
               /\ VsText(VersionData, VsStrings[k]) = Built.strings[k][2]

\* The keys of the records without a value.
ContainerKeys == {Key_StringFileInfo, Key_000004b0, Key_VarFileInfo}

\* C17: in the emitted version payload every record's wLength is the
\* distance from its start to the end of its body (the end of its last
\* child, or of its value when it has no children), padding between key,
\* value and children included; wValueLength is the value's size (52 and 4
\* bytes for the two Binary values, the code units with the terminator for a
\* String, 0 without a value); every record starts at a multiple of 4 of the
\* payload and lies inside its parent's [start, start + wLength).
C17_FieldLengths ==
    Compiled =>
      LET P == VersionData
          tree == VsTree(P, VsRoot, << >>)
      IN  /\ VsRoot.wLength > 0
          /\ Align4(VsRoot.end) = Len(P)
          /\ Cardinality(tree) = 9
          /\ \A x \in tree :
                LET r == x.record
                    cs == VsChildren(P, r)
                IN  /\ r.start % 4 = 0
                    /\ IF cs # << >>
                       THEN /\ cs[1].start = r.children_start
                            /\ r.end = cs[Len(cs)].end
                       ELSE r.end = IF r.wType = 1 THEN r.value_end
                                    ELSE r.children_start
                    /\ r.key \in ContainerKeys => r.wValueLength = 0
                    /\ r.key = Key_VS_VERSION_INFO => r.wValueLength = 52
                    /\ r.key = Key_Translation =>
                          /\ r.wValueLength = 4
                          /\ read_u32(P, r.value_start) = 78643200
                    /\ (r.wType = 1 /\ r.key \notin ContainerKeys) =>
                          /\ r.wValueLength >= 1
                          /\ Utf16End(P, r.value_start) = r.value_end - 2
                    /\ x.parent # << >> =>
                          /\ x.parent[1].start < r.start
                          /\ r.end <= x.parent[1].end

\* A compiled COFF file whose version payload has String records of odd and
\* even text lengths, so that padding precedes some records.
C17_Witness ==
    /\ out.kind = "Coff"
    /\ Len(VsStrings) = 4
    /\ VsStrings[3].end % 4 = 2
    /\ VsStrings[4].start = VsStrings[3].end + 2

(***************************************************************************)
(* Claims about the files the builder compiles.                            *)
(***************************************************************************)
\* The records of the compiled .res stream.
OutRecords == ResRecords(out.data, 0)

\* The number of resources the builder the file was made of holds, the
\* version included.
BuiltResources ==
    1 + Len(out.of.icons) + Len(out.of.icon_groups) + Len(out.of.manifest)

\* C18: in every record of a compiled .res stream the language field is
\* 0x0409 when the type is not None and 0x0000 when it is None; in the
\* directory of a compiled COFF file every data entry is reached at depth 3
\* through a Language-level entry with id 0x0409.
C18_LanguageTag ==
    /\ out.kind = "Res" =>
          /\ Len(OutRecords) = 1 + BuiltResources
          /\ \A n \in 1..Len(OutRecords) :
                OutRecords[n].language = IF OutRecords[n].type = 0 THEN 0 ELSE 1033
    /\ out.kind = "Coff" =>
          /\ Cardinality(DataEntries(out.data)) = BuiltResources
          /\ \A e \in DataEntries(out.data) : Len(e.path) = 3 /\ e.path[3] = 1033

\* A .res stream with the sentinel and records of the four other types.
C18_Witness ==
    /\ out.kind = "Res"
    /\ {OutRecords[n].type : n \in 1..Len(OutRecords)} = {0, 3, 14, 16, 24}
    /\ OutRecords[1].language = 0
    /\ OutRecords[2].language = 1033

\* <<type, name, payload>> of record n.
OutRecord(n) ==
    <<OutRecords[n].type, OutRecords[n].name, RecordData(out.data, OutRecords[n])>>

\* C19: the records of a compiled .res stream are, in this order: the None
\* sentinel (id 0, empty payload), the Version record, one Icon record per
\* icon in registration order, one IconGroup record per icon group in
\* registration order, and the Manifest record if and only if a manifest was
\* set.
C19_EmissionOrder ==
    out.kind = "Res" =>
       LET icons == out.of.icons
           groups == out.of.icon_groups
           ni == Len(icons)
           ng == Len(groups)
       IN  /\ Len(OutRecords) = 2 + ni + ng + Len(out.of.manifest)
           /\ OutRecord(1) = <<0, 0, << >> >>
           /\ OutRecords[2].type = 16 /\ OutRecords[2].name = 1
           /\ \A k \in 1..ni :
                 2 + k <= Len(OutRecords) =>
                    OutRecord(2 + k) = <<3, icons[k][1], icons[k][2]>>
           /\ \A k \in 1..ng :
                 2 + ni + k <= Len(OutRecords) =>
                    /\ OutRecords[2 + ni + k].type = 14
                    /\ OutRecords[2 + ni + k].name = groups[k][1]
           /\ out.of.manifest # << >> =>
                 OutRecord(Len(OutRecords)) = <<24, 1, out.of.manifest[1]>>
           /\ out.of.manifest = << >> =>
                 \A n \in 1..Len(OutRecords) : OutRecords[n].type # 24

\* A stream of two icons registered under ids 2 and then 1, with a manifest.
C19_Witness ==
    /\ out.kind = "Res"
    /\ Len(out.of.icons) = 2
    /\ out.of.icon_groups[1][1] = 2
    /\ out.of.icon_groups[2][1] = 1
    /\ out.of.manifest # << >>
    /\ Len(OutRecords) = 7

\* The icon-group ids of a builder are pairwise distinct and it holds at
\* most one manifest.
ValidBuilder(b) ==
    /\ \A m, n \in 1..Len(b.icon_groups) :
          m # n => b.icon_groups[m][1] # b.icon_groups[n][1]
    /\ Len(b.manifest) <= 1

IconsNumbered(b) ==
    /\ Len(b.icon_groups) = Len(b.icons)
    /\ \A n \in 1..Len(b.icons) :
          /\ b.icons[n][1] = ICON_BASE_ID + (n - 1)
          /\ n <= Len(b.icon_groups) =>
                /\ Len(b.icon_groups[n][2]) = 1
                /\ b.icon_groups[n][2][1].icon_id = b.icons[n][1]
                /\ b.icon_groups[n][2][1].icon_size = Len(b.icons[n][2])

\* The GRPICONDIR payload P holds one entry, for an icon of `size` bytes
\* with the id `id`.
GroupNames(P, id, size) ==
    /\ Len(P) = 20
    /\ read_u16(P, 4) = 1                                      \* idCount
    /\ read_u32(P, 14) = size                                  \* dwBytesInRes
    /\ read_u16(P, 18) = id

\* In the compiled file the Icon resources are named 128, 129, ..., the
\* IconGroup resources are named by the ids add_icon was given, and every
\* IconGroup payload names an Icon resource of the file, with its length.
IconsEmitted ==
    LET icons == out.of.icons
        groups == out.of.icon_groups
    IN  /\ out.kind = "Res" =>
              /\ \A k \in 1..Len(icons) :
                    2 + k <= Len(OutRecords) =>
                       /\ OutRecords[2 + k].type = 3
                       /\ OutRecords[2 + k].name = ICON_BASE_ID + (k - 1)
              /\ \A n \in 1..Len(OutRecords) :
                    OutRecords[n].type = 14 =>
                       /\ \E k \in 1..Len(groups) : groups[k][1] = OutRecords[n].name
                       /\ \E m \in 1..Len(OutRecords) :
                             /\ OutRecords[m].type = 3
                             /\ GroupNames(RecordData(out.data, OutRecords[n]),
                                           OutRecords[m].name, OutRecords[m].data_size)
        /\ out.kind = "Coff" =>
              /\ {e.path[2] : e \in {d \in DataEntries(out.data) : d.path[1] = 3}}
                    = {ICON_BASE_ID + (k - 1) : k \in 1..Len(icons)}
              /\ {e.path[2] : e \in {d \in DataEntries(out.data) : d.path[1] = 14}}
                    = {groups[k][1] : k \in 1..Len(groups)}
              /\ \A e \in DataEntries(out.data) :
                    e.path[1] = 14 =>
                       \E i \in DataEntries(out.data) :
                          /\ i.path[1] = 3
                          /\ GroupNames(CoffEntryData(out.data, e), i.path[2], i.size)

\* C21: after any sequence of successful add_icon calls the n-th icon (from
\* 0) has the internal id 128 + n, there are as many icon groups as icons,
\* each group holds exactly one entry, whose icon_id is the id of an Icon
\* resource of the same output and whose icon_size is its byte length, and
\* the ids add_icon was given are the IconGroup ids only.
C21_IconIds ==
    /\ IconsNumbered(rb)
    /\ Compiled => IconsEmitted

(***************************************************************************)
(* Claims about two emissions of the same input.                           *)
(***************************************************************************)
\* The byte sequences A and B are equal outside the timestamp field of the
\* COFF file header, the 4 bytes at offset 4.
EqualButTimestamp(A, B) ==
    /\ Len(A) = Len(B)
    /\ Len(A) >= 8
    /\ SubSeq(A, 1, 4) = SubSeq(B, 1, 4)
    /\ SubSeq(A, 9, Len(A)) = SubSeq(B, 9, Len(B))

\* A second compile_to_coff on the builder and target of the compiled file,
\* run when the clock reads `timestamp`.
SecondCoff(timestamp) ==
    ResourceBuilder_compile_to_coff(out.of, out.target, timestamp).file

FieldCallDone(k) == k < Len(wrLog) \/ ~wr.panic

\* The wLength of the record of call c: the 6 header bytes and the key with
\* its terminator, padded to 4, and the value, padded to 4.
FieldLengthOf(c) == Align4(6 + 2 * (Len(c.key) + 1)) + Align4(c.n)

\* C23: a length or count that does not fit its 16-bit field ends the
\* emission (a version record's wLength or wValueLength, a section's
\* number_of_relocations above 65535), and a call that returns leaves the
\* value itself in the field, never the value modulo 2^16.
C23_FieldCapacity ==
    \A k \in 1..Len(wrLog) :
       /\ wrLog[k].op = "write_field" =>
             /\ (wrLog[k].n >= U16_LIMIT \/ FieldLengthOf(wrLog[k]) >= U16_LIMIT)
                   => ~FieldCallDone(k)
             /\ FieldCallDone(k) =>
                   /\ read_u16(wr.data, wrLog[k].at) = FieldLengthOf(wrLog[k])
                   /\ read_u16(wr.data, wrLog[k].at + 2) = wrLog[k].n
       /\ wrLog[k].op = "section_headers" =>
             /\ wrLog[k].n >= U16_LIMIT => ~FieldCallDone(k)
             /\ FieldCallDone(k) =>
                   read_u16(wr.data, wrLog[k].at + 32) = wrLog[k].n

\* The part of C23 write_field keeps: its two lengths.
FieldLengthsChecked ==
    \A k \in 1..Len(wrLog) :
       wrLog[k].op = "write_field" =>
          /\ (wrLog[k].n >= U16_LIMIT \/ FieldLengthOf(wrLog[k]) >= U16_LIMIT)
                => ~FieldCallDone(k)
          /\ FieldCallDone(k) =>
                /\ read_u16(wr.data, wrLog[k].at) = FieldLengthOf(wrLog[k])
                /\ read_u16(wr.data, wrLog[k].at + 2) = wrLog[k].n

(***************************************************************************)
(* Claims about the aborts of finish and the layout of the file.           *)
(***************************************************************************)
\* C24: finish after any sequence of add_resource calls returns a file: no
\* symbol is a Placeholder when the symbol table is written (the four
\* reserved slots hold the two section symbols, each followed by its
\* auxiliary record), and the position assertions after the file header
\* (pos = 20) and after the section headers (pos = 100) hold.
C24_NoAbort ==
    /\ ~coffDone /\ ~cw2.panic =>
          /\ Len(cw2.symbols) = 4 + Len(coffLog)
          /\ \A k \in 1..4 : cw2.symbols[k].tag = "Placeholder"
          /\ \A k \in 5..Len(cw2.symbols) : cw2.symbols[k].tag = "Resource"
    /\ coffDone =>
          /\ ~cw2.panic
          /\ Len(coffFile) >= FILE_HEADER_SIZE + 2 * SECTION_HEADER_SIZE
          /\ Len(cw2.symbols) = 4 + Len(coffLog)
          /\ \A k \in 1..Len(cw2.symbols) : cw2.symbols[k].tag # "Placeholder"
          /\ \A k \in {1, 3} :
                k + 1 <= Len(cw2.symbols) =>
                   /\ cw2.symbols[k].tag = "Section"
                   /\ cw2.symbols[k + 1].tag = "SectionAux"

\* finish has returned the file of two resources.
C24_Witness ==
    /\ coffDone
    /\ ~cw2.panic
    /\ Len(coffLog) = 2
    /\ cw2.symbols[3].tag = "Section"
    /\ File_number_of_sections(coffFile) = 2

\* The machine id and the relocation type of each target.
TargetPairs ==
    {<<"I386", 332, 7>>,                \* 0x014C, IMAGE_REL_I386_DIR32NB
     <<"X86_64", 34404, 3>>,            \* 0x8664, IMAGE_REL_AMD64_ADDR32NB
     <<"Aarch64", 43620, 2>>}           \* 0xAA64, IMAGE_REL_ARM64_ADDR32NB

\* C25: the machine field of the file header and the type field of every
\* relocation record are the pair of the writer's target: 0x014C and 0x0007
\* for I386, 0x8664 and 0x0003 for X86_64, 0xAA64 and 0x0002 for Aarch64.
C25_TargetPair ==
    CoffEmitted =>
       \E p \in TargetPairs :
          /\ p[1] = cw2.target_type
          /\ File_machine(coffFile) = p[2]
          /\ \A j \in RelocationIndices(coffFile, 0) :
                RelocationAt(coffFile, 0, j).type = p[3]

\* A file for Aarch64 with two relocations.
C25_Witness ==
    /\ CoffEmitted
    /\ cw2.target_type = "Aarch64"
    /\ File_machine(coffFile) = 43620
    /\ SectionAt(coffFile, 0).number_of_relocations = 2
    /\ RelocationAt(coffFile, 0, 0).type = 2
    /\ RelocationAt(coffFile, 0, 1).type = 2

\* The region [from, from + size) of the file F.
Region(F, from, size) == SubSeq(F, from + 1, from + size)

\* The symbol table of F is `count` records of 18 bytes: the section symbol
\* of .rsrc$01 and its auxiliary record (the section's length and relocation
\* count), those of .rsrc$02, and one "$R" symbol per add_resource call.
SymbolRecords(F, count) ==
    /\ File_number_of_symbols(F) = count
    /\ PrimarySymbols(F, 0) = {0, 2} \cup 4..(count - 1)
    /\ \A i \in {0, 1} :
          /\ SymbolAt(F, 2 * i).name = SectionAt(F, i).name
          /\ SymbolAt(F, 2 * i).section_number = i + 1
          /\ SymbolAt(F, 2 * i).number_of_aux = 1
          /\ read_u32(F, SymbolAt(F, 2 * i + 1).position)
                = SectionAt(F, i).size_of_raw_data
          /\ read_u16(F, SymbolAt(F, 2 * i + 1).position + 4)
                = SectionAt(F, i).number_of_relocations
          /\ Region(F, SymbolAt(F, 2 * i + 1).position + 6, 12) = Zeros(12)
    /\ \A k \in 4..(count - 1) : IsResourceSymbol(F, k)

\* C26: in the file finish returns number_of_symbols is 4 + the number of
\* add_resource calls, every symbol-table record is 18 bytes, the file ends
\* with the 4 zero bytes of the string table right after the symbol table,
\* and the headers [0, 100), the raw data of .rsrc$01, its relocations, the
\* raw data of .rsrc$02, the symbol table and the string table follow each
\* other in this order without overlap, each where the headers say.
C26_FileRegions ==
    CoffEmitted =>
       /\ File_number_of_sections(coffFile) = 2
       /\ SymbolRecords(coffFile, 4 + Len(coffLog))
       /\ Len(coffFile) = File_symbol_table_pointer(coffFile)
                            + SYMBOL_SIZE * (4 + Len(coffLog)) + 4
       /\ Region(coffFile, Len(coffFile) - 4, 4) = Zeros(4)
       /\ \E t \in {SectionAt(coffFile, 0)}, d \in {SectionAt(coffFile, 1)} :
             /\ t.name = Name_rsrc01 /\ d.name = Name_rsrc02
             /\ t.pointer_to_raw_data = FILE_HEADER_SIZE + 2 * SECTION_HEADER_SIZE
             /\ t.pointer_to_relocations = t.pointer_to_raw_data + t.size_of_raw_data
             /\ t.pointer_to_relocations + RELOCATION_SIZE * t.number_of_relocations
                   <= d.pointer_to_raw_data
             /\ d.pointer_to_raw_data
                   < t.pointer_to_relocations
                     + RELOCATION_SIZE * t.number_of_relocations + 4
             /\ d.pointer_to_relocations = 0 /\ d.number_of_relocations = 0
             /\ d.pointer_to_raw_data + d.size_of_raw_data
                   = File_symbol_table_pointer(coffFile)
             /\ Len(cw2.data.data) <= d.size_of_raw_data
             /\ Region(coffFile, d.pointer_to_raw_data, d.size_of_raw_data)
                   = cw2.data.data \o Zeros(d.size_of_raw_data - Len(cw2.data.data))

\* A file of two resources with payload bytes: six symbol records.
C26_Witness ==
    /\ CoffEmitted
    /\ Len(coffLog) = 2
    /\ File_number_of_symbols(coffFile) = 6
    /\ SectionAt(coffFile, 0).number_of_relocations = 2
    /\ SectionAt(coffFile, 1).size_of_raw_data > 8

(***************************************************************************)
(* Claims about the nodes of the resource directory.                       *)
(***************************************************************************)
\* The nodes of the directory of the emitted file, and the bytes of the
\* table section a node occupies: 16 bytes and 8 per entry for a directory
\* node, 16 bytes for a data entry.
TableBase == SectionAt(coffFile, 0).pointer_to_raw_data

TableNodes == ResNodes(coffFile, TableBase, 0, MaxDepth)

NodeEntries(n) == read_u16(coffFile, TableBase + n.offset + 14)

NodeBytes(n) ==
    IF n.dir THEN n.offset..(n.offset + 16 + 8 * NodeEntries(n) - 1)
    ELSE n.offset..(n.offset + 15)

\* The id of entry i (from 0) of the directory node n.
NodeEntryId(n, i) == read_u32(coffFile, TableBase + n.offset + 16 + 8 * i)

\* C27: in the emitted directory the entries of every node have strictly
\* ascending ids, whatever the order of the add_resource calls, the node's
\* n_named_entries is 0 and its n_id_entries counts its entries, and the
\* nodes and data entries do not overlap and lie inside the table section
\* (which they fill: a count that differed from the entries written would
\* leave bytes of the section outside every node, or nodes overlapping).
C27_DirectoryNodes ==
    CoffEmitted =>
       /\ \A n \in TableNodes :
             /\ NodeBytes(n) \subseteq 0..(SectionAt(coffFile, 0).size_of_raw_data - 1)
             /\ n.dir =>
                   /\ read_u16(coffFile, TableBase + n.offset + 12) = 0
                   /\ \A i \in 0..(NodeEntries(n) - 2) :
                         /\ NodeEntryId(n, i) >= 0
                         /\ NodeEntryId(n, i) < NodeEntryId(n, i + 1)
       /\ \A n, m \in TableNodes : n # m => NodeBytes(n) \cap NodeBytes(m) = {}
       /\ UNION {NodeBytes(n) : n \in TableNodes}
             = 0..(SectionAt(coffFile, 0).size_of_raw_data - 1)
       /\ NodeEntries([dir |-> TRUE, offset |-> 0]) = Cardinality(DOMAIN cw2.table)
       /\ Cardinality({n \in TableNodes : ~n.dir}) = Cardinality(CoffKeys)

\* A Version resource was added before an Icon resource; the root lists Icon (3) before
\* Version (16).
C27_Witness ==
    /\ CoffEmitted
    /\ Len(coffLog) = 2
    /\ coffLog[1].ty = "Version" /\ coffLog[2].ty = "Icon"
    /\ NodeEntries([dir |-> TRUE, offset |-> 0]) = 2
    /\ NodeEntryId([dir |-> TRUE, offset |-> 0], 0) = 3
    /\ NodeEntryId([dir |-> TRUE, offset |-> 0], 1) = 16

(***************************************************************************)
(* Claims about the handles of the legacy directory writer.                *)
(***************************************************************************)
\* The subdirectory and data_entry calls made on directory d before call n.
ChildCalls(d, n) ==
    {m \in 1..(n - 1) : llog[m].op \in {"subdirectory", "data_entry"} /\ llog[m].handle = d}

\* The call that allocated directory d.
Allocation(d) ==
    llog[CHOOSE m \in 1..Len(llog) :
            llog[m].op \in {"write_directory", "subdirectory"} /\ llog[m].child = d]

\* Call n was fatal: it is the last call and the writer has failed.
CallFailed(n) == n = Len(llog) /\ lcw.panic

\* The bytes of the writer after call n.
BytesAfter(n) == IF n < Len(llog) THEN llog[n + 1].before ELSE lcw.data

\* Call n, an accepted subdirectory or data_entry call on a directory that
\* starts at `node` and has taken `prior` calls: its entry holds the id and
\* the section-relative position at which the call found the writer, with
\* bit 31 for a subdirectory, and the child is allocated at that position.
EntryWritten(n, node, prior) ==
    /\ read_u32(BytesAfter(n), node + 16 + 8 * prior) = llog[n].id
    /\ read_u32(BytesAfter(n), node + 16 + 8 * prior + 4)
          = Len(llog[n].before) - CoffWriter_HEADER_SIZE
    /\ bit31(BytesAfter(n), node + 16 + 8 * prior + 4) <=> llog[n].op = "subdirectory"
    /\ Len(BytesAfter(n))
          = Len(llog[n].before) + 16
            + (IF llog[n].op = "subdirectory" THEN 8 * llog[n].entries ELSE 0)
    /\ llog[n].op = "subdirectory" =>
          read_u16(BytesAfter(n), Len(llog[n].before) + 14) = llog[n].entries

\* C28: a directory of the legacy writer allocated for n entries takes n
\* subdirectory / data_entry calls and the next one is fatal, dropping it
\* after fewer than n calls is fatal, dropping a data entry write_data was
\* never called on is fatal, a fatal call leaves the bytes of the writer as
\* they were, and the offset of each entry written is the position, relative
\* to the 60-byte header, of the child allocated right after it, with bit
\* 0x80000000 set iff the child is a subdirectory.
C28_LegacyHandles ==
    \A n \in 1..Len(llog) :
       /\ CallFailed(n) => BytesAfter(n) = llog[n].before
       /\ llog[n].op \in {"subdirectory", "data_entry"} =>
             /\ CallFailed(n) <=>
                   Cardinality(ChildCalls(llog[n].handle, n))
                      >= Allocation(llog[n].handle).entries
             /\ ~CallFailed(n) =>
                   EntryWritten(n, Len(Allocation(llog[n].handle).before),
                                Cardinality(ChildCalls(llog[n].handle, n)))
       /\ llog[n].op = "drop_directory" =>
             (CallFailed(n) <=>
                 Cardinality(ChildCalls(llog[n].handle, n))
                    < Allocation(llog[n].handle).entries)
       /\ llog[n].op = "drop_entry" =>
             (CallFailed(n) <=>
                 ~\E m \in 1..(n - 1) :
                     llog[m].op = "write_data" /\ llog[m].handle = llog[n].handle)

\* The root was allocated for two entries and took a subdirectory and a data
\* entry; the third call on it was fatal.
C28_Witness ==
    /\ Len(llog) = 4
    /\ lcw.panic
    /\ llog[1].op = "write_directory" /\ llog[1].entries = 2
    /\ llog[2].op = "subdirectory" /\ llog[2].handle = 1
    /\ llog[3].op = "data_entry" /\ llog[3].handle = 1
    /\ llog[4].op \in {"subdirectory", "data_entry"} /\ llog[4].handle = 1


(***************************************************************************)
(* The payload symbols of the two-section emitter against the payload      *)
(* section of the emitted object.                                          *)
(***************************************************************************)
\* The symbol record of the k-th add_resource call.
PayloadSymbolOf(k) == SymbolAt(coffFile, coffLog[k].symbol_id)

\* The bytes the k-th call handed over (CoffPayloads are Bytes(n)).
PayloadOf(k) == Bytes(coffLog[k].appended)

PayloadInsideSection(k) ==
    PayloadSymbolOf(k).value + coffLog[k].appended
       <= SectionAt(coffFile, 1).size_of_raw_data

VersionRecord ==
    OutRecords[CHOOSE n \in 1..Len(OutRecords) :
                  OutRecords[n].type = ResourceType_id("Version")]

\* The Version data entry of the compiled COFF file.
VersionEntry ==
    CHOOSE e \in DataEntries(out.data) : e.path[1] = ResourceType_id("Version")

\* The payload size the file records for the Version resource.
VersionSize ==
    IF out.kind = "Res" THEN VersionRecord.data_size ELSE VersionEntry.size

\* The positions the payloads of the compiled file start at: in the .res
\* stream itself, in the payload section of the COFF file.
PayloadStarts ==
    IF out.kind = "Res"
    THEN {OutRecords[n].data_start : n \in 1..Len(OutRecords)}
    ELSE {SymbolAt(out.data, k).value : k \in PayloadSymbols(out.data)}

\* C30: in both emitters the Version payload begins directly with the root
\* VS_VERSION_INFO record (its first two bytes are the root wLength, without
\* leading padding, every payload starting at a multiple of 4 in the
\* underlying writer), and the recorded payload size (.res data_size, COFF
\* data-entry size) equals the root record's wLength.
C30_VersionPayload ==
    Compiled =>
       /\ \A at \in PayloadStarts : at % 4 = 0
       /\ VsRoot.key = Key_VS_VERSION_INFO
       /\ VsRoot.wType = 0
       /\ VsRoot.wValueLength = 52
       /\ Region(VersionData, VsRoot.value_start, 4) = <<189, 4, 239, 254>>
       /\ read_u16(VersionData, 0) = VersionSize
       /\ Len(VersionData) = VersionSize

\* A compiled .res stream whose Version record announces the 464 bytes of
\* the root record, followed by the record of an icon whose length is not a
\* multiple of 4 and by two more records.
C30_Witness ==
    /\ out.kind = "Res"
    /\ VersionRecord.data_size = 464
    /\ VsRoot.wLength = 464
    /\ Len(OutRecords) = 5
    /\ OutRecords[3].type = ResourceType_id("Icon")
    /\ OutRecords[3].data_size % 4 # 0
    /\ Cardinality(PayloadStarts) = 5

=============================================================================
